---- MODULE Spec2Model ----
(***************************************************************************)
(* Grid Sketch Architect: the layer registry (useLayerManager.ts /         *)
(* GridSketch.tsx) and the drawing surface (Canvas.tsx) with its tools,    *)
(* layer object lists and undo/redo history.                               *)
(*                                                                         *)
(* Every user event is one action.  An action runs the event handler and   *)
(* then the React effects of Canvas.tsx whose dependencies changed, in     *)
(* declaration order.  Handlers installed by an effect read the props of   *)
(* the render that installed them; those captured values are state.        *)
(*                                                                         *)
(* Layer ids: 0 is "layer-1"; n > 0 is `layer-${Date.now()}` for the       *)
(* clock reading n.  Object ids: 1..Len(objs) are the fabric objects that  *)
(* can be referenced from a list or the history; AnonGrid is the grid      *)
(* group built by the init effect, TempPoint the start marker.             *)
(***************************************************************************)
EXTENDS Integers, Sequences, FiniteSets, TLC

\* ------------------------------------------------------------------ bounds
MaxClock == 2
MaxLayers == 3
MaxObjs == 4
FewObjs == 3
MaxHistory == 4
MaxPad == 1
MaxNumber == 4
NumPointers == 2
MaxStroke == 3

\* ------------------------------------------------------- program constants
InitialLayerId == 0
InitialGridSize == 20
OtherGridSize == 25
InitialStrokeWidth == 2
InitialWidth == 800
NarrowWidth == 600
NoLayer == -1
NoObject == 0
NoPoint == <<>>
AnonGrid == -1
TempPoint == -2

Tools == {"select", "line", "arrow", "circle", "rectangle", "text", "erase"}
DragTools == {"line", "arrow", "circle", "rectangle"}

\* Pointer positions offered to the canvas (pixels).
PointerTable == << <<5, 5>>, <<33, 18>>, <<5, 18>>, <<33, 5>> >>
Pointers == {PointerTable[i] : i \in 1..NumPointers}

VARIABLES
    \* registry (React state of the layer manager)
    layers,             \* Seq of [id, name, visible, locked, objects]
    activeLayerId,
    now,                \* last reading of Date.now()
    isUpdatingRef,      \* useLayerManager's guard of updateLayerObjects
    \* editor props
    activeTool, gridSize, snapToGrid,
    strokeWidth,        \* the style settings (width, colours) as one value
    gridVisible, isPrintMode,
    width,              \* the viewport: canvasWidth (the height goes with it)
    \* Canvas.tsx refs
    canvasObjs,         \* fabricCanvasRef.current.getObjects(), back to front
    gridRef, tempPointRef, startPointRef,
    gridShown,          \* gridRef.current.visible
    canvasWidth,        \* fabricCanvasRef.current.width
    history, historyIndex,
    layerObjectsMap,    \* Seq of [key, val], in Map insertion order
    isLayerUpdateInProgress,
    activeObject,       \* canvas.getActiveObjects(): NoObject or one object
    actionPerformed,    \* fabric: the pointer has moved the object it holds
    objs,               \* fabric objects by id: their fields
    \* values captured by installed handlers
    initActive,         \* activeLayerId seen by object:added / keydown
    initSnap, initGridSize, \* snapToGrid, gridSize seen by object:moving
    bound,              \* the mouse handlers on the canvas, with their closures,
                        \* in the order canvas.on registered them
    cur,                \* the closure variable line / circle / rect / arrowLine
    \* environment
    mouseDown,          \* the pointer button is held
    \* observation
    discarded,          \* entries the latest saveHistoryState cut off the log
    lastPassed          \* Seq of [key, val]: the list each layer id was last
                        \* passed to updateLayerObjects with

regVars == <<layers, activeLayerId, now>>
propVars == <<activeTool, gridSize, snapToGrid, strokeWidth, gridVisible,
              isPrintMode, width>>
refVars == <<canvasObjs, gridRef, tempPointRef, startPointRef, gridShown, canvasWidth, history,
             historyIndex, layerObjectsMap, isLayerUpdateInProgress,
             activeObject, actionPerformed, objs>>
closVars == <<initActive, initSnap, initGridSize, bound, cur>>
hookVars == <<isUpdatingRef, lastPassed>>
vars == <<regVars, propVars, refVars, closVars, mouseDown, discarded, hookVars>>

\* ----------------------------------------------------------- sequences
Range(s) == {s[i] : i \in 1..Len(s)}

Includes(s, x) == \E i \in 1..Len(s) : s[i] = x

\* Array.prototype.indexOf, 1-based; 0 when absent
IndexOf(s, x) ==
    IF Includes(s, x) THEN CHOOSE i \in 1..Len(s) :
                               s[i] = x /\ \A j \in 1..(i-1) : s[j] # x
    ELSE 0

\* Array.prototype.splice(index, 1)
SpliceAt(s, i) == SubSeq(s, 1, i-1) \o SubSeq(s, i+1, Len(s))

Count(s, x) == Cardinality({i \in 1..Len(s) : s[i] = x})

\* ------------------------------------------------------------ geometry
\* Math.floor(v / c + 1) * c in the place of Math.round(v / c) * c
RoundToCellUp(v, c) == ((2 * v + 2 * c) \div (2 * c)) * c

\* Math.round(v / c) * c for integers v and c > 0 (half goes up: floor(v/c + 1/2))
RoundToCell(v, c) == ((2 * v + c) \div (2 * c)) * c

snapToGridPoint(point, snap, cellSize) ==
    IF ~snap THEN point
    ELSE <<RoundToCell(point[1], cellSize), RoundToCell(point[2], cellSize)>>

Abs(v) == IF v < 0 THEN -v ELSE v

Min(a, b) == IF a < b THEN a ELSE b

\* ------------------------------------------------- layerObjectsMap (Map)
MapHas(m, k) == \E i \in 1..Len(m) : m[i].key = k

\* layerObjectsMap.current.get(k) || []
MapGet(m, k) ==
    IF MapHas(m, k) THEN m[CHOOSE i \in 1..Len(m) : m[i].key = k].val ELSE <<>>

\* Map.prototype.set: an existing key keeps its place in the iteration order
MapSet(m, k, v) ==
    IF MapHas(m, k)
    THEN [i \in 1..Len(m) |-> IF m[i].key = k THEN [key |-> k, val |-> v] ELSE m[i]]
    ELSE Append(m, [key |-> k, val |-> v])

\* for (const [layerId, layerObjects] of map.entries()) { if (indexOf(obj) >= 0) ... break }
\* the position of the first entry whose list holds obj, 0 when none does
FirstEntryWith(m, obj) ==
    IF \E i \in 1..Len(m) : Includes(m[i].val, obj)
    THEN CHOOSE i \in 1..Len(m) :
             Includes(m[i].val, obj) /\ \A j \in 1..(i-1) : ~Includes(m[j].val, obj)
    ELSE 0

\* ------------------------------------------------------ layer registry
\* layers.find(l => l.id === id): position of the first such layer, 0 when none
FindLayer(ls, id) ==
    IF \E i \in 1..Len(ls) : ls[i].id = id
    THEN CHOOSE i \in 1..Len(ls) : ls[i].id = id /\ \A j \in 1..(i-1) : ls[j].id # id
    ELSE 0

LayerIds(ls) == {ls[i].id : i \in 1..Len(ls)}

\* names are <<form, number>>; <<"Calque", n>> is the text "Calque n",
\* <<"calque", n>> the text "calque n", <<"Plan", 0>> a name without a number
SetMax(S) == IF S = {} THEN 0 ELSE CHOOSE x \in S : \A y \in S : y <= x

\* /^Calque\s+\d+$/i : the word in any case, a number
isDefaultFormat(name) == name[1] \in {"Calque", "calque"}

generateUniqueLayerName(ls) ==
    LET existingNumbers == {IF isDefaultFormat(ls[i].name) THEN ls[i].name[2] ELSE 0 :
                               i \in 1..Len(ls)}
    IN  <<"Calque", SetMax(existingNumbers \cup {0}) + 1>>

NewLayer(t, ls) ==
    [id |-> t, name |-> generateUniqueLayerName(ls), visible |-> TRUE,
     locked |-> FALSE, objects |-> <<>>]

\* addLayer putting the new layer in front of the others
addLayerLayersFront(ls, t) == <<NewLayer(t, ls)>> \o ls

\* addLayer with Date.now() = t: the layer list and the active id afterwards
addLayerLayers(ls, t) == Append(ls, NewLayer(t, ls))

\* removeLayer without the test for the last layer
removeLayerLayersUnguarded(ls, layerId) ==
    LET Keep(l) == l.id # layerId IN SelectSeq(ls, Keep)

\* removeLayer(layerId): the layer list afterwards
removeLayerLayers(ls, layerId) ==
    IF Len(ls) <= 1 THEN ls
    ELSE LET Keep(l) == l.id # layerId IN SelectSeq(ls, Keep)

\* removeLayer(layerId): the active id afterwards ("" is NoLayer)
removeLayerActive(ls, active, layerId) ==
    IF Len(ls) <= 1 THEN active
    ELSE IF active = layerId
         THEN LET Keep(l) == l.id # layerId
                  remainingLayers == SelectSeq(ls, Keep)
              IN  IF remainingLayers # <<>> THEN remainingLayers[1].id ELSE NoLayer
         ELSE active

toggleLayerLockLayers(ls, layerId) ==
    IF FindLayer(ls, layerId) = 0 THEN ls
    ELSE LET newLockState == ~ls[FindLayer(ls, layerId)].locked
         IN  [i \in 1..Len(ls) |->
                 IF ls[i].id = layerId THEN [ls[i] EXCEPT !.locked = newLockState]
                 ELSE ls[i]]

toggleLayerVisibilityLayers(ls, layerId) ==
    IF FindLayer(ls, layerId) = 0 THEN ls
    ELSE LET newVisibility == ~ls[FindLayer(ls, layerId)].visible
         IN  [i \in 1..Len(ls) |->
                 IF ls[i].id = layerId THEN [ls[i] EXCEPT !.visible = newVisibility]
                 ELSE ls[i]]

\* the text of the name field: <<spaces before, name, spaces after>>; the
\* empty name is Blank
Blank == <<"", 0>>

trim(text) == text[2]

\* saveLayerName without the test for a blank name
saveLayerNameUnguarded(ls, editingLayerId, editLayerName) ==
    IF editingLayerId = NoLayer THEN ls
    ELSE [i \in 1..Len(ls) |->
             IF ls[i].id = editingLayerId THEN [ls[i] EXCEPT !.name = trim(editLayerName)]
             ELSE ls[i]]

\* saveLayerName of the hook, with editingLayerId (NoLayer is null) and
\* editLayerName as they stand when it is called
saveLayerName(ls, editingLayerId, editLayerName) ==
    IF editingLayerId = NoLayer \/ trim(editLayerName) = Blank THEN ls
    ELSE LET typed == trim(editLayerName)
             nameIsUnique == \A i \in 1..Len(ls) :
                                 ls[i].id = editingLayerId \/ ls[i].name # typed
             finalName == IF isDefaultFormat(typed) /\ ~nameIsUnique
                          THEN generateUniqueLayerName(ls)
                          ELSE typed
         IN  [i \in 1..Len(ls) |->
                 IF ls[i].id = editingLayerId THEN [ls[i] EXCEPT !.name = finalName]
                 ELSE ls[i]]

\* The same operations as GridSketch.tsx codes them inline.
addLayerGridSketch(ls, t) ==
    Append(ls, [id |-> t, name |-> <<"Calque", Len(ls) + 1>>, visible |-> TRUE,
                locked |-> FALSE, objects |-> <<>>])

\* setLayers(updatedLayers) is queued before updatedLayers[0].id is read: when
\* nothing remains the read throws and the active id stays
removeLayerActiveGridSketch(ls, active, layerId) ==
    IF Len(ls) <= 1 THEN active
    ELSE IF active = layerId
         THEN LET Keep(l) == l.id # layerId
                  updatedLayers == SelectSeq(ls, Keep)
              IN  IF updatedLayers # <<>> THEN updatedLayers[1].id ELSE active
         ELSE active

renameLayer(ls, layerId, newName) ==
    [i \in 1..Len(ls) |->
        IF ls[i].id = layerId THEN [ls[i] EXCEPT !.name = newName] ELSE ls[i]]

saveLayerNameGridSketch(ls, editingLayerId, editLayerName) ==
    IF editingLayerId = NoLayer \/ trim(editLayerName) = Blank THEN ls
    ELSE renameLayer(ls, editingLayerId, trim(editLayerName))

\* ------------------------------------------------------- canvas: world
\* The mutable things a Canvas.tsx handler touches, as one record.
\* layersSet: setLayers was called, so the component renders again.
World ==
    [layers |-> layers, canvasObjs |-> canvasObjs, gridRef |-> gridRef,
     tempPointRef |-> tempPointRef, startPointRef |-> startPointRef,
     history |-> history, historyIndex |-> historyIndex,
     layerObjectsMap |-> layerObjectsMap,
     isLayerUpdateInProgress |-> isLayerUpdateInProgress,
     activeObject |-> activeObject, objs |-> objs, cur |-> cur,
     isHistoryAction |-> FALSE, layersSet |-> FALSE, discarded |-> discarded,
     actionPerformed |-> actionPerformed,
     gridShown |-> gridShown, canvasWidth |-> canvasWidth,
     gridSize |-> gridSize, snapToGrid |-> snapToGrid, strokeWidth |-> strokeWidth,
     gridVisible |-> gridVisible, isPrintMode |-> isPrintMode, width |-> width,
     isUpdatingRef |-> isUpdatingRef, lastPassed |-> lastPassed]

IsShape(o) == o >= 1

\* fabric canvas.remove(obj): takes obj off the object stack if it is there;
\* removing the active object discards the selection
canvasRemove(w, o) ==
    IF Includes(w.canvasObjs, o)
    THEN [w EXCEPT !.canvasObjs = SpliceAt(@, IndexOf(@, o)),
                   !.activeObject = IF @ = o THEN NoObject ELSE @]
    ELSE w

\* updateLayersWithObjects: copies the map's lists into the layers, unless the
\* re-entrancy flag is still up (the updater is evaluated when it is queued)
updateLayersWithObjects(w) ==
    IF w.isLayerUpdateInProgress THEN w
    ELSE [w EXCEPT !.isLayerUpdateInProgress = TRUE,
                   !.layers = [i \in 1..Len(w.layers) |->
                                 [w.layers[i] EXCEPT
                                     !.objects = MapGet(w.layerObjectsMap, w.layers[i].id)]],
                   !.layersSet = TRUE]

\* saveHistoryState without the cut at the cursor
saveHistoryStateKeepAll(w, objects, actionType, layerId) ==
    LET pushed == Append(w.history, [objects |-> objects, type |-> actionType,
                                     layerId |-> layerId])
    IN  [w EXCEPT !.history = pushed, !.historyIndex = Len(pushed) - 1,
                  !.discarded = 0]

saveHistoryState(w, objects, actionType, layerId) ==
    LET kept == IF w.historyIndex < Len(w.history) - 1
                THEN SubSeq(w.history, 1, w.historyIndex + 1)
                ELSE w.history
        pushed == Append(kept, [objects |-> objects, type |-> actionType,
                                layerId |-> layerId])
    IN  [w EXCEPT !.history = pushed, !.historyIndex = Len(pushed) - 1,
                  !.discarded = Len(w.history) - Len(kept)]

\* object:added without the isHistoryActionRef test
onObjectAddedUnflagged(w, target, la) ==
    IF w.gridRef # NoObject /\ target = w.gridRef THEN w
    ELSE IF target = w.tempPointRef THEN w
    ELSE LET layerObjects == MapGet(w.layerObjectsMap, la)
         IN  IF Includes(layerObjects, target) THEN w
             ELSE LET w1 == [w EXCEPT
                                !.layerObjectsMap = MapSet(@, la, Append(layerObjects, target)),
                                !.objs[target].layerId = la]
                      w2 == updateLayersWithObjects(w1)
                  IN  saveHistoryState(w2, <<target>>, "add", la)

\* canvas.on('object:added'), registered by the init effect; la is the
\* activeLayerId of the render that ran that effect
onObjectAdded(w, target, la) ==
    IF w.isHistoryAction THEN w
    ELSE IF w.gridRef # NoObject /\ target = w.gridRef THEN w
    ELSE IF target = w.tempPointRef THEN w
    ELSE LET layerObjects == MapGet(w.layerObjectsMap, la)
         IN  IF Includes(layerObjects, target) THEN w
             ELSE LET w1 == [w EXCEPT
                                !.layerObjectsMap = MapSet(@, la, Append(layerObjects, target)),
                                !.objs[target].layerId = la]
                      w2 == updateLayersWithObjects(w1)
                  IN  saveHistoryState(w2, <<target>>, "add", la)

\* fabric canvas.add(obj): pushes obj on the stack and fires object:added
canvasAdd(w, o, la) ==
    onObjectAdded([w EXCEPT !.canvasObjs = Append(@, o)], o, la)

\* new fabric.<Kind>(...): a fresh object; its id is Len(objs)
NewObject(w, fields) == [w EXCEPT !.objs = Append(@, fields)]

NewId(w) == Len(w.objs) + 1

\* drawGrid as the init effect runs it: object:added is not registered yet
drawGridSilent(w) ==
    LET w1 == IF w.gridRef # NoObject THEN canvasRemove(w, w.gridRef) ELSE w
    IN  [w1 EXCEPT !.canvasObjs = <<AnonGrid>> \o @, !.gridRef = AnonGrid,
                   !.gridShown = w.gridVisible]

\* drawGrid as run by the [gridSize, gridVisible] effect: canvas.add(grid) fires
\* object:added while gridRef.current is still the previous grid
drawGrid(w, la) ==
    LET w1 == IF w.gridRef # NoObject THEN canvasRemove(w, w.gridRef) ELSE w
        g  == NewId(w1)
        w2 == NewObject(w1, [kind |-> "grid", layerId |-> NoLayer,
                             selectable |-> FALSE, evented |-> FALSE,
                             visible |-> w.gridVisible])
        w3 == canvasAdd(w2, g, la)
    IN  [w3 EXCEPT !.gridRef = g, !.gridShown = w.gridVisible,
                   !.canvasObjs = <<g>> \o SpliceAt(@, IndexOf(@, g))]

\* the init effect, deps [width, height, layers.length]: a new fabric.Canvas,
\* an empty list for every layer of this render, the grid
RECURSIVE ResetLists(_, _)
ResetLists(m, ls) ==
    IF ls = <<>> THEN m ELSE ResetLists(MapSet(m, Head(ls).id, <<>>), Tail(ls))

initCanvas(w) ==
    drawGridSilent([w EXCEPT !.canvasObjs = <<>>, !.activeObject = NoObject,
                             !.canvasWidth = w.width,
                             !.layerObjectsMap = ResetLists(@, w.layers),
                             !.cur = NoObject])

\* ------------------------------------------------------- undo and redo
\* "Remove from layer": splice obj out of the first list that holds it
removeFromFirstList(w, obj) ==
    LET k == FirstEntryWith(w.layerObjectsMap, obj)
    IN  IF k = 0 THEN w
        ELSE [w EXCEPT !.layerObjectsMap[k].val = SpliceAt(@, IndexOf(@, obj))]

\* "Add back to layer" as coded: push obj on the first list that holds it already
pushOnFirstList(w, obj) ==
    LET k == FirstEntryWith(w.layerObjectsMap, obj)
    IN  IF k = 0 THEN w
        ELSE [w EXCEPT !.layerObjectsMap[k].val = Append(@, obj)]

RECURSIVE replayRemoveFromCanvas(_, _)
replayRemoveFromCanvas(w, objects) ==
    IF objects = <<>> THEN w
    ELSE replayRemoveFromCanvas(
             removeFromFirstList(canvasRemove(w, Head(objects)), Head(objects)),
             Tail(objects))

RECURSIVE replayAddToCanvas(_, _, _)
replayAddToCanvas(w, objects, la) ==
    IF objects = <<>> THEN w
    ELSE replayAddToCanvas(
             pushOnFirstList(canvasAdd(w, Head(objects), la), Head(objects)),
             Tail(objects), la)

\* redo of a removal: only objects found on the canvas are removed
RECURSIVE replayRemoveIfOnCanvas(_, _)
replayRemoveIfOnCanvas(w, objects) ==
    IF objects = <<>> THEN w
    ELSE replayRemoveIfOnCanvas(
             IF Includes(w.canvasObjs, Head(objects))
             THEN removeFromFirstList(canvasRemove(w, Head(objects)), Head(objects))
             ELSE w,
             Tail(objects))

\* performUndo without the test of the cursor: the cursor still moves down
performUndoNoFloor(w, la) ==
    IF w.historyIndex < 0 THEN [w EXCEPT !.historyIndex = @ - 1]
    ELSE LET action == w.history[w.historyIndex + 1]
             w0 == [w EXCEPT !.isHistoryAction = TRUE]
             w1 == IF action.type = "add"
                   THEN updateLayersWithObjects(replayRemoveFromCanvas(w0, action.objects))
                   ELSE IF action.type = "remove"
                   THEN updateLayersWithObjects(replayAddToCanvas(w0, action.objects, la))
                   ELSE w0
         IN  [w1 EXCEPT !.historyIndex = @ - 1, !.isHistoryAction = FALSE]

performUndo(w, la) ==
    IF w.historyIndex < 0 THEN w
    ELSE LET action == w.history[w.historyIndex + 1]
             w0 == [w EXCEPT !.isHistoryAction = TRUE]
             w1 == IF action.type = "add"
                   THEN updateLayersWithObjects(replayRemoveFromCanvas(w0, action.objects))
                   ELSE IF action.type = "remove"
                   THEN updateLayersWithObjects(replayAddToCanvas(w0, action.objects, la))
                   ELSE w0
         IN  [w1 EXCEPT !.historyIndex = @ - 1, !.isHistoryAction = FALSE]

\* performRedo without the test of the cursor: the cursor still moves up
performRedoNoCeiling(w, la) ==
    IF w.historyIndex >= Len(w.history) - 1 THEN [w EXCEPT !.historyIndex = @ + 1]
    ELSE LET w0 == [w EXCEPT !.historyIndex = @ + 1, !.isHistoryAction = TRUE]
             action == w0.history[w0.historyIndex + 1]
             w1 == IF action.type = "add"
                   THEN updateLayersWithObjects(replayAddToCanvas(w0, action.objects, la))
                   ELSE IF action.type = "remove"
                   THEN updateLayersWithObjects(replayRemoveIfOnCanvas(w0, action.objects))
                   ELSE w0
         IN  [w1 EXCEPT !.isHistoryAction = FALSE]

performRedo(w, la) ==
    IF w.historyIndex >= Len(w.history) - 1 THEN w
    ELSE LET w0 == [w EXCEPT !.historyIndex = @ + 1, !.isHistoryAction = TRUE]
             action == w0.history[w0.historyIndex + 1]
             w1 == IF action.type = "add"
                   THEN updateLayersWithObjects(replayAddToCanvas(w0, action.objects, la))
                   ELSE IF action.type = "remove"
                   THEN updateLayersWithObjects(replayRemoveIfOnCanvas(w0, action.objects))
                   ELSE w0
         IN  [w1 EXCEPT !.isHistoryAction = FALSE]

\* keydown Delete / Backspace (handler of the init effect)
deleteSelection(w, la) ==
    IF w.activeObject = NoObject THEN w
    ELSE LET obj == w.activeObject
             w1 == saveHistoryState(w, <<obj>>, "remove", la)
             w2 == removeFromFirstList(canvasRemove(w1, obj), obj)
             w3 == updateLayersWithObjects(w2)
         IN  [w3 EXCEPT !.activeObject = NoObject]

\* handleKeyDown of Canvas.tsx, on document, registered by the init effect; it
\* does not look at the target of the event
handleKeyDownCanvas(w, key, la) ==
    IF key = "Delete" THEN deleteSelection(w, la)
    ELSE IF key = "g"
    THEN IF w.gridRef # NoObject
         THEN [w EXCEPT !.gridShown = ~w.gridShown,
                        !.objs = IF w.gridRef >= 1
                                 THEN [@ EXCEPT ![w.gridRef].visible = ~w.gridShown]
                                 ELSE @]
         ELSE w
    ELSE IF key = "ctrl+z" THEN performUndo(w, la)
    ELSE IF key = "ctrl+y" THEN performRedo(w, la)
    ELSE w

\* handleKeyDown of GridSketch.tsx, on document: the tool it sets
handleKeyDownTool(tool, key, inField) ==
    IF inField THEN tool
    ELSE IF key = "v" THEN "select"
    ELSE IF key = "l" THEN "line"
    ELSE IF key = "c" THEN "circle"
    ELSE IF key = "r" THEN "rectangle"
    ELSE IF key = "t" THEN "text"
    ELSE IF key = "e" THEN "erase"
    ELSE tool

\* the same handler: the grid and snap flags it sets
handleKeyDownFlags(w, key, inField) ==
    IF inField THEN w
    ELSE IF key = "g" THEN [w EXCEPT !.gridVisible = ~w.gridVisible]
    ELSE IF key = "s" THEN [w EXCEPT !.snapToGrid = ~w.snapToGrid]
    ELSE w

\* ------------------------------------------- visibility / interactivity
\* updateLayersVisibility, run by the [layers, activeLayerId, activeTool] effect
updateLayersVisibility(w, active, tool) ==
    LET ls == w.layers
        Touched(o) == /\ Includes(w.canvasObjs, o)
                      /\ o # w.gridRef
                      /\ w.objs[o].layerId # NoLayer
                      /\ FindLayer(ls, w.objs[o].layerId) # 0
        LayerOf(o) == ls[FindLayer(ls, w.objs[o].layerId)]
        isActive(o) == w.objs[o].layerId = active
    IN  [w EXCEPT !.objs = [o \in 1..Len(@) |->
            IF Touched(o)
            THEN [@[o] EXCEPT
                    !.visible = LayerOf(o).visible,
                    !.selectable = isActive(o) /\ ~LayerOf(o).locked /\ tool = "select",
                    !.evented = isActive(o) /\ ~LayerOf(o).locked]
            ELSE @[o]]]

\* updateObjectsInteractivity, run by the [activeTool, activeLayerId] effect
updateObjectsInteractivity(w, active, tool) ==
    LET ls == w.layers
        isDrawingTool == tool # "select" /\ tool # "erase"
        OnCanvas(o) == Includes(w.canvasObjs, o)
        Tagged(o) == w.objs[o].layerId # NoLayer
        Found(o) == FindLayer(ls, w.objs[o].layerId) # 0
        LayerOf(o) == ls[FindLayer(ls, w.objs[o].layerId)]
        isActive(o) == w.objs[o].layerId = active
    IN  [w EXCEPT !.objs = [o \in 1..Len(@) |->
            IF ~OnCanvas(o) THEN @[o]
            ELSE IF o = w.gridRef
            THEN [@[o] EXCEPT !.selectable = FALSE, !.evented = FALSE]
            ELSE IF Tagged(o)
            THEN IF Found(o)
                 THEN [@[o] EXCEPT
                         !.visible = LayerOf(o).visible,
                         !.selectable = isActive(o) /\ ~LayerOf(o).locked /\ ~isDrawingTool,
                         !.evented = isActive(o) /\ ~LayerOf(o).locked]
                 ELSE @[o]
            ELSE [@[o] EXCEPT !.selectable = ~isDrawingTool, !.evented = TRUE]]]

\* --------------------------------------------------------- tool handlers
\* h is the closure of the installed mouse handlers: the tool whose setup ran
\* and the props of that render; la is the closure of object:added.
NoHandlers ==
    [tool |-> "none", activeLayerId |-> NoLayer, layers |-> <<>>,
     snapToGrid |-> FALSE, gridSize |-> InitialGridSize]

\* the handlers that answer a pointer event: the first registered runs first
handlers == IF bound = <<>> THEN NoHandlers ELSE bound[1]

\* the mouse:down guard of the drawing tools: the press is refused
pressRefused(h) ==
    LET k == FindLayer(h.layers, h.activeLayerId)
    IN  k = 0 \/ h.layers[k].locked

\* the start marker: remove the previous one, add the new one
showTempPoint(w, la) ==
    LET w1 == IF w.tempPointRef # NoObject THEN canvasRemove(w, w.tempPointRef) ELSE w
    IN  canvasAdd([w1 EXCEPT !.tempPointRef = TempPoint], TempPoint, la)

Provisional(kind, pt) ==
    IF kind = "circle"
    THEN [kind |-> "circle", layerId |-> NoLayer, selectable |-> FALSE,
          evented |-> FALSE, visible |-> TRUE,
          left |-> pt[1], top |-> pt[2], radiusSq |-> 0]
    ELSE IF kind = "rectangle"
    THEN [kind |-> "rectangle", layerId |-> NoLayer, selectable |-> FALSE,
          evented |-> FALSE, visible |-> TRUE,
          left |-> pt[1], top |-> pt[2], width |-> 0, height |-> 0]
    ELSE [kind |-> "line", layerId |-> NoLayer, selectable |-> FALSE,
          evented |-> FALSE, visible |-> TRUE,
          left |-> pt[1], top |-> pt[2],
          x1 |-> pt[1], y1 |-> pt[2], x2 |-> pt[1], y2 |-> pt[2]]

\* mouse:down of setupLineTool / setupArrowTool / setupCircleTool / setupRectangleTool
mouseDownDraw(w, h, la, pointer) ==
    IF pressRefused(h) THEN w
    ELSE LET snappedPoint == snapToGridPoint(pointer, h.snapToGrid, h.gridSize)
             w1 == showTempPoint([w EXCEPT !.startPointRef = snappedPoint], la)
             shape == NewId(w1)
             w2 == NewObject(w1, Provisional(h.tool, snappedPoint))
         IN  canvasAdd([w2 EXCEPT !.cur = shape], shape, la)

\* mouse:move with the rectangle's origin left at the start point (no flip)
mouseMoveDrawNoFlip(w, h, pointer) ==
    IF w.cur = NoObject \/ w.startPointRef = NoPoint THEN w
    ELSE LET sp == snapToGridPoint(pointer, h.snapToGrid, h.gridSize)
             st == w.startPointRef
         IN  IF h.tool = "circle"
             THEN [w EXCEPT !.objs[w.cur].radiusSq =
                      (sp[1] - st[1]) * (sp[1] - st[1]) + (sp[2] - st[2]) * (sp[2] - st[2])]
             ELSE IF h.tool = "rectangle"
             THEN [w EXCEPT !.objs[w.cur].width = Abs(sp[1] - st[1]),
                            !.objs[w.cur].height = Abs(sp[2] - st[2]),
                            !.objs[w.cur].left = st[1],
                            !.objs[w.cur].top = st[2]]
             ELSE [w EXCEPT !.objs[w.cur].x2 = sp[1], !.objs[w.cur].y2 = sp[2],
                            !.objs[w.cur].left = Min(w.objs[w.cur].x1, sp[1]),
                            !.objs[w.cur].top = Min(w.objs[w.cur].y1, sp[2])]

\* mouse:move of the same tools (the circle keeps radius squared, not the radius)
mouseMoveDraw(w, h, pointer) ==
    IF w.cur = NoObject \/ w.startPointRef = NoPoint THEN w
    ELSE LET sp == snapToGridPoint(pointer, h.snapToGrid, h.gridSize)
             st == w.startPointRef
         IN  IF h.tool = "circle"
             THEN [w EXCEPT !.objs[w.cur].radiusSq =
                      (sp[1] - st[1]) * (sp[1] - st[1]) + (sp[2] - st[2]) * (sp[2] - st[2])]
             ELSE IF h.tool = "rectangle"
             THEN [w EXCEPT !.objs[w.cur].width = Abs(sp[1] - st[1]),
                            !.objs[w.cur].height = Abs(sp[2] - st[2]),
                            !.objs[w.cur].left = Min(st[1], sp[1]),
                            !.objs[w.cur].top = Min(st[2], sp[2])]
             ELSE [w EXCEPT !.objs[w.cur].x2 = sp[1], !.objs[w.cur].y2 = sp[2],
                            !.objs[w.cur].left = Min(w.objs[w.cur].x1, sp[1]),
                            !.objs[w.cur].top = Min(w.objs[w.cur].y1, sp[2])]

\* the discard test of mouse:up
isZeroExtent(o) ==
    IF o.kind = "circle" THEN o.radiusSq = 0
    ELSE IF o.kind = "rectangle" THEN o.width = 0 /\ o.height = 0
    ELSE o.x1 = o.x2 /\ o.y1 = o.y2

removeTempPoint(w) ==
    IF w.tempPointRef # NoObject
    THEN [canvasRemove(w, w.tempPointRef) EXCEPT !.tempPointRef = NoObject]
    ELSE w

\* the commit branch of mouse:up of the line, circle and rectangle tools
commitShape(w, h) ==
    LET shape == w.cur
        w1 == [w EXCEPT !.objs[shape].selectable = TRUE,
                        !.objs[shape].evented = TRUE,
                        !.objs[shape].layerId = h.activeLayerId]
        layerObjects == MapGet(w1.layerObjectsMap, h.activeLayerId)
    IN  IF Includes(layerObjects, shape) THEN w1
        ELSE updateLayersWithObjects(
                 [w1 EXCEPT !.layerObjectsMap =
                      MapSet(@, h.activeLayerId, Append(layerObjects, shape))])

\* the commit branch of mouse:up of the arrow tool: head, group, and the
\* object:added handler does the layer bookkeeping
commitArrow(w, h, la) ==
    LET arrowLine == w.cur
        arrowHead == NewId(w)
        w1 == canvasAdd(
                  NewObject(w, [kind |-> "triangle", layerId |-> NoLayer,
                                selectable |-> FALSE, evented |-> FALSE, visible |-> TRUE,
                                left |-> w.objs[arrowLine].x2, top |-> w.objs[arrowLine].y2]),
                  arrowHead, la)
        arrowGroup == NewId(w1)
        w2 == NewObject(w1, [kind |-> "group", layerId |-> h.activeLayerId,
                             selectable |-> TRUE, evented |-> TRUE, visible |-> TRUE,
                             left |-> w.objs[arrowLine].left, top |-> w.objs[arrowLine].top,
                             parts |-> <<arrowLine, arrowHead>>])
        w3 == canvasRemove(canvasRemove(w2, arrowLine), arrowHead)
    IN  canvasAdd(w3, arrowGroup, la)

mouseUpDraw(w, h, la) ==
    IF w.cur = NoObject \/ w.startPointRef = NoPoint THEN w
    ELSE LET w1 == removeTempPoint(w)
             w2 == IF isZeroExtent(w1.objs[w1.cur]) THEN canvasRemove(w1, w1.cur)
                   ELSE IF h.tool = "arrow" THEN commitArrow(w1, h, la)
                   ELSE commitShape(w1, h)
         IN  [w2 EXCEPT !.startPointRef = NoPoint, !.cur = NoObject]

\* mouse:down of setupTextTool
mouseDownText(w, h, la, pointer) ==
    IF pressRefused(h) THEN w
    ELSE LET sp == snapToGridPoint(pointer, h.snapToGrid, h.gridSize)
             text == NewId(w)
             w1 == canvasAdd(
                       NewObject(w, [kind |-> "text", layerId |-> h.activeLayerId,
                                     selectable |-> TRUE, evented |-> TRUE, visible |-> TRUE,
                                     left |-> sp[1], top |-> sp[2]]),
                       text, la)
             w2 == [w1 EXCEPT !.activeObject = text]
             layerObjects == MapGet(w2.layerObjectsMap, h.activeLayerId)
         IN  IF Includes(layerObjects, text) THEN w2
             ELSE updateLayersWithObjects(
                      [w2 EXCEPT !.layerObjectsMap =
                           MapSet(@, h.activeLayerId, Append(layerObjects, text))])

\* the hit loop of setupEraseTool: from the top of the stack down, the first
\* object under the pointer (hits) that is not on a layer the closure sees locked
RECURSIVE eraseTarget(_, _, _, _)
eraseTarget(w, h, hits, i) ==
    IF i < 1 THEN NoObject
    ELSE LET obj == w.canvasObjs[i]
             onLockedLayer ==
                 /\ obj >= 1
                 /\ w.objs[obj].layerId # NoLayer
                 /\ FindLayer(h.layers, w.objs[obj].layerId) # 0
                 /\ h.layers[FindLayer(h.layers, w.objs[obj].layerId)].locked
         IN  IF (w.gridRef # NoObject /\ obj = w.gridRef) \/ obj = w.tempPointRef
             THEN eraseTarget(w, h, hits, i - 1)
             ELSE IF obj \in hits
             THEN IF onLockedLayer THEN eraseTarget(w, h, hits, i - 1) ELSE obj
             ELSE eraseTarget(w, h, hits, i - 1)

\* mouse:down of setupEraseTool
mouseDownErase(w, h, hits) ==
    LET objectToRemove == eraseTarget(w, h, hits, Len(w.canvasObjs))
    IN  IF objectToRemove = NoObject \/ ~IsShape(objectToRemove) THEN w
        ELSE LET objLayerId == w.objs[objectToRemove].layerId
                 layerObjects == MapGet(w.layerObjectsMap, objLayerId)
             IN  IF objLayerId = NoLayer \/ ~Includes(layerObjects, objectToRemove)
                 THEN w
                 ELSE LET w1 == saveHistoryState(w, <<objectToRemove>>, "remove", objLayerId)
                          w2 == canvasRemove(w1, objectToRemove)
                          w3 == [w2 EXCEPT !.layerObjectsMap =
                                     MapSet(@, objLayerId,
                                            SpliceAt(layerObjects,
                                                     IndexOf(layerObjects, objectToRemove)))]
                      IN  updateLayersWithObjects(w3)

\* fabric's own mouse-down: the topmost visible, evented object under the
\* pointer becomes the active object if it is selectable, else the selection
\* is cleared
RECURSIVE findTarget(_, _, _)
findTarget(w, hits, i) ==
    IF i < 1 THEN NoObject
    ELSE LET obj == w.canvasObjs[i]
         IN  IF obj \in hits /\ IsShape(obj) /\ w.objs[obj].visible /\ w.objs[obj].evented
             THEN obj
             ELSE findTarget(w, hits, i - 1)

nativeMouseDown(w, hits) ==
    LET target == findTarget(w, hits, Len(w.canvasObjs))
    IN  [w EXCEPT !.activeObject =
            IF target # NoObject /\ w.objs[target].selectable THEN target ELSE NoObject,
                  !.actionPerformed = FALSE]

\* canvas.on('object:moving'), registered by the init effect: fabric has put
\* the held object at the pointer, the handler snaps its left / top
onObjectMoving(w, target, pointer, snap, cell) ==
    LET at == snapToGridPoint(pointer, snap, cell)
    IN  [w EXCEPT !.objs[target].left = at[1], !.objs[target].top = at[2],
                  !.actionPerformed = TRUE]

\* canvas.on('object:modified'), registered by the init effect
onObjectModified(w, target, la) ==
    IF w.isHistoryAction THEN w
    ELSE IF w.gridRef # NoObject /\ target = w.gridRef THEN w
    ELSE saveHistoryState(w, <<target>>, "modify", la)

\* fabric's own mouse-up: a transform that moved its object fires object:modified
nativeMouseUp(w, la) ==
    IF w.actionPerformed /\ w.activeObject # NoObject
    THEN [onObjectModified(w, w.activeObject, la) EXCEPT !.actionPerformed = FALSE]
    ELSE [w EXCEPT !.actionPerformed = FALSE]

\* ------------------------------------------------------ render effects
\* setup<Tool>Tool(canvas) of the render with these props; select installs nothing
installHandlers(ls, active, tool, snap, cell) ==
    IF tool = "select" THEN NoHandlers
    ELSE [tool |-> tool, activeLayerId |-> active,
          layers |-> [i \in 1..Len(ls) |-> [id |-> ls[i].id, locked |-> ls[i].locked]],
          snapToGrid |-> snap, gridSize |-> cell]

\* The effects of Canvas.tsx that run after a handler left the world w1 with
\* props active1 / tool1, in declaration order:
\*   init            deps [width, height, layers.length]
\*   visibility      deps [layers, activeLayerId, activeTool]
\*   tool            deps [activeTool, activeLayerId]
lenChanged(w1) == Len(w1.layers) # Len(layers)

sizeChanged(w1) == w1.width # width

keyChanged(active1, tool1) == active1 # activeLayerId \/ tool1 # activeTool

styleChanged(w1) == w1.strokeWidth # strokeWidth

gridChanged(w1) == w1.gridSize # gridSize \/ w1.gridVisible # gridVisible

printChanged(w1) == w1.isPrintMode # isPrintMode \/ w1.gridVisible # gridVisible

\* the init effect ran: a new canvas, new object:added and keydown closures
canvasRenewed(w1) == lenChanged(w1) \/ sizeChanged(w1)

afterInitEffect(w1) == IF canvasRenewed(w1) THEN initCanvas(w1) ELSE w1

\* gridRef.current.visible = v
setGridShown(w, v) ==
    [w EXCEPT !.gridShown = v,
              !.objs = IF w.gridRef >= 1 THEN [@ EXCEPT ![w.gridRef].visible = v] ELSE @]

\* one effect: its body when its dependencies changed, nothing otherwise
effect(run, after, before) == IF run THEN after ELSE before

\* the resize effect, deps [width, height]: acts when the canvas has another
\* width than the prop (the shapes here lie far inside either width, so its
\* loop over the objects moves none)
resizeStep(w, run) ==
    effect(run /\ w.width # w.canvasWidth,
           drawGrid([w EXCEPT !.canvasWidth = w.width], initActive), w)

afterResizeEffect(w1) == resizeStep(afterInitEffect(w1), sizeChanged(w1))

visibilityStep(w, run, active1, tool1) ==
    effect(run, updateLayersVisibility(w, active1, tool1), w)

afterVisibilityEffect(w1, active1, tool1) ==
    visibilityStep(afterResizeEffect(w1), w1.layersSet \/ keyChanged(active1, tool1),
                   active1, tool1)

toolStep(w, run, active1, tool1) ==
    effect(run, updateObjectsInteractivity([w EXCEPT !.cur = NoObject], active1, tool1), w)

afterToolEffect(w1, active1, tool1) ==
    toolStep(afterVisibilityEffect(w1, active1, tool1), keyChanged(active1, tool1),
             active1, tool1)

gridStep(w, run, la) == effect(run, drawGrid(w, la), w)

\* the [gridSize, gridVisible] effect: drawGrid, with object:added listening
afterGridEffect(w1, active1, tool1) ==
    gridStep(afterToolEffect(w1, active1, tool1), gridChanged(w1),
             IF canvasRenewed(w1) THEN active1 ELSE initActive)

printStep(w, run) ==
    effect(run /\ w.gridRef # NoObject, setGridShown(w, w.gridVisible /\ ~w.isPrintMode), w)

\* the [isPrintMode, gridVisible] effect
afterPrintEffect(w1, active1, tool1) ==
    printStep(afterGridEffect(w1, active1, tool1), printChanged(w1))

\* canvas.off("mouse:down"), canvas.off("mouse:move"), canvas.off("mouse:up")
canvasOff(hs) == <<>>

\* the tool effect without the three canvas.off calls
toolEffectBindingsKeepOld(hs, ls, active, tool, snap, cell) ==
    IF tool = "select" THEN hs
    ELSE Append(hs, installHandlers(ls, active, tool, snap, cell))

\* the bindings the [activeTool, activeLayerId] effect leaves
toolEffectBindings(hs, ls, active, tool, snap, cell) ==
    IF tool = "select" THEN canvasOff(hs)
    ELSE Append(canvasOff(hs), installHandlers(ls, active, tool, snap, cell))

\* the bindings the [strokeWidth, strokeColor, fillColor] effect leaves: it sets
\* up the line, circle and rectangle tools only
styleEffectBindings(hs, ls, active, tool, snap, cell) ==
    IF tool \in {"line", "circle", "rectangle"}
    THEN Append(canvasOff(hs), installHandlers(ls, active, tool, snap, cell))
    ELSE canvasOff(hs)

\* the bindings after the tool effect and the style effect
toolBindingsStep(b0, run, ls, active1, tool1, snap, cell) ==
    effect(run, toolEffectBindings(b0, ls, active1, tool1, snap, cell), b0)

styleBindingsStep(b1, run, ls, active1, tool1, snap, cell) ==
    effect(run, styleEffectBindings(b1, ls, active1, tool1, snap, cell), b1)

effectBindings(b0, ls, active1, tool1, snap, cell, keyRun, styleRun) ==
    styleBindingsStep(toolBindingsStep(b0, keyRun, ls, active1, tool1, snap, cell),
                      styleRun, ls, active1, tool1, snap, cell)

\* the next state is the world w2 the effects left, with the closures they
\* installed
commit(w2, active1, tool1, renewed, b2) ==
    /\ layers' = w2.layers
    /\ canvasObjs' = w2.canvasObjs
    /\ gridRef' = w2.gridRef
    /\ tempPointRef' = w2.tempPointRef
    /\ startPointRef' = w2.startPointRef
    /\ gridShown' = w2.gridShown
    /\ canvasWidth' = w2.canvasWidth
    /\ history' = w2.history
    /\ historyIndex' = w2.historyIndex
    /\ layerObjectsMap' = w2.layerObjectsMap
    /\ isLayerUpdateInProgress' = w2.isLayerUpdateInProgress
    /\ activeObject' = w2.activeObject
    /\ objs' = w2.objs
    /\ cur' = w2.cur
    /\ discarded' = w2.discarded
    /\ actionPerformed' = w2.actionPerformed
    /\ activeLayerId' = active1
    /\ activeTool' = tool1
    /\ gridSize' = w2.gridSize
    /\ snapToGrid' = w2.snapToGrid
    /\ strokeWidth' = w2.strokeWidth
    /\ gridVisible' = w2.gridVisible
    /\ isPrintMode' = w2.isPrintMode
    /\ width' = w2.width
    /\ initActive' = IF renewed THEN active1 ELSE initActive
    /\ initSnap' = IF renewed THEN w2.snapToGrid ELSE initSnap
    /\ initGridSize' = IF renewed THEN w2.gridSize ELSE initGridSize
    /\ bound' = b2
    /\ isUpdatingRef' = w2.isUpdatingRef
    /\ lastPassed' = w2.lastPassed

\* the effects run on the world w1 a handler left, then the state is committed
Render(w1, active1, tool1) ==
    commit(afterPrintEffect(w1, active1, tool1), active1, tool1, canvasRenewed(w1),
           effectBindings(IF canvasRenewed(w1) THEN <<>> ELSE bound, w1.layers, active1, tool1,
                          w1.snapToGrid, w1.gridSize,
                          keyChanged(active1, tool1), styleChanged(w1)))

\* ------------------------------------------------------------- mount
BlankWorld ==
    [layers |-> <<[id |-> InitialLayerId, name |-> <<"Calque", 1>>, visible |-> TRUE,
                   locked |-> FALSE, objects |-> <<>>]>>,
     canvasObjs |-> <<>>, gridRef |-> NoObject, tempPointRef |-> NoObject,
     startPointRef |-> NoPoint, history |-> <<>>, historyIndex |-> -1,
     layerObjectsMap |-> <<>>, isLayerUpdateInProgress |-> FALSE,
     activeObject |-> NoObject, objs |-> <<>>, cur |-> NoObject,
     isHistoryAction |-> FALSE, layersSet |-> FALSE, discarded |-> 0,
     actionPerformed |-> FALSE,
     gridShown |-> FALSE, canvasWidth |-> 0,
     gridSize |-> InitialGridSize, snapToGrid |-> TRUE,
     strokeWidth |-> InitialStrokeWidth, gridVisible |-> TRUE, isPrintMode |-> FALSE,
     width |-> InitialWidth,
     isUpdatingRef |-> FALSE, lastPassed |-> <<>>]

\* the effects of the first render: init (canvas, lists, grid), then the
\* [gridSize, gridVisible] effect draws the grid again, then visibility
Mounted ==
    updateLayersVisibility(drawGrid(initCanvas(BlankWorld), InitialLayerId),
                           InitialLayerId, "select")

Init ==
    /\ layers = Mounted.layers
    /\ activeLayerId = InitialLayerId
    /\ now = 1
    /\ activeTool = "select"
    /\ gridSize = InitialGridSize
    /\ snapToGrid = TRUE
    /\ strokeWidth = InitialStrokeWidth
    /\ gridVisible = TRUE
    /\ isPrintMode = FALSE
    /\ width = InitialWidth
    /\ gridShown = Mounted.gridShown
    /\ canvasWidth = Mounted.canvasWidth
    /\ canvasObjs = Mounted.canvasObjs
    /\ gridRef = Mounted.gridRef
    /\ tempPointRef = Mounted.tempPointRef
    /\ startPointRef = Mounted.startPointRef
    /\ history = Mounted.history
    /\ historyIndex = Mounted.historyIndex
    /\ layerObjectsMap = Mounted.layerObjectsMap
    /\ isLayerUpdateInProgress = Mounted.isLayerUpdateInProgress
    /\ activeObject = Mounted.activeObject
    /\ objs = Mounted.objs
    /\ initActive = InitialLayerId
    /\ initSnap = TRUE
    /\ initGridSize = InitialGridSize
    /\ bound = <<>>
    /\ cur = NoObject
    /\ mouseDown = FALSE
    /\ discarded = Mounted.discarded
    /\ actionPerformed = FALSE
    /\ isUpdatingRef = FALSE
    /\ lastPassed = <<>>

\* ------------------------------------------------------------ actions
\* The layer panel and the arrow button are worked with the pointer, so they
\* are out of reach while the button is held on the canvas; the other tools,
\* undo, redo and delete have keyboard shortcuts.
AddLayer(t) ==
    /\ ~mouseDown
    /\ Len(layers) < MaxLayers
    /\ now' = t
    /\ Render([World EXCEPT !.layers = addLayerLayers(layers, t), !.layersSet = TRUE],
              t, activeTool)
    /\ UNCHANGED mouseDown

RemoveLayer(layerId) ==
    /\ ~mouseDown
    /\ Render([World EXCEPT !.layers = removeLayerLayers(layers, layerId),
                            !.layersSet = Len(layers) > 1],
              removeLayerActive(layers, activeLayerId, layerId), activeTool)
    /\ UNCHANGED <<now, mouseDown>>

SetActive(layerId) ==
    /\ ~mouseDown
    /\ layerId # activeLayerId
    /\ Render(World, layerId, activeTool)
    /\ UNCHANGED <<now, mouseDown>>

ToggleLock(layerId) ==
    /\ ~mouseDown
    /\ Render([World EXCEPT !.layers = toggleLayerLockLayers(layers, layerId),
                            !.layersSet = TRUE],
              activeLayerId, activeTool)
    /\ UNCHANGED <<now, mouseDown>>

\* the name field is closed with editingLayerId and editLayerName as given
SaveLayerName(editingLayerId, editLayerName) ==
    /\ ~mouseDown
    /\ Render([World EXCEPT
                  !.layers = saveLayerName(layers, editingLayerId, editLayerName),
                  !.layersSet = editingLayerId # NoLayer /\ trim(editLayerName) # Blank],
              activeLayerId, activeTool)
    /\ UNCHANGED <<now, mouseDown>>

\* the layer panel of GridSketch.tsx
AddLayerGridSketch(t) ==
    /\ ~mouseDown
    /\ Len(layers) < MaxLayers
    /\ now' = t
    /\ Render([World EXCEPT !.layers = addLayerGridSketch(layers, t), !.layersSet = TRUE],
              t, activeTool)
    /\ UNCHANGED mouseDown

RemoveLayerGridSketch(layerId) ==
    /\ ~mouseDown
    /\ Render([World EXCEPT !.layers = removeLayerLayers(layers, layerId),
                            !.layersSet = Len(layers) > 1],
              removeLayerActiveGridSketch(layers, activeLayerId, layerId), activeTool)
    /\ UNCHANGED <<now, mouseDown>>

SaveLayerNameGridSketch(editingLayerId, editLayerName) ==
    /\ ~mouseDown
    /\ Render([World EXCEPT
                  !.layers = saveLayerNameGridSketch(layers, editingLayerId, editLayerName),
                  !.layersSet = editingLayerId # NoLayer /\ trim(editLayerName) # Blank],
              activeLayerId, activeTool)
    /\ UNCHANGED <<now, mouseDown>>

ToggleVisibility(layerId) ==
    /\ ~mouseDown
    /\ Render([World EXCEPT !.layers = toggleLayerVisibilityLayers(layers, layerId),
                            !.layersSet = FindLayer(layers, layerId) # 0],
              activeLayerId, activeTool)
    /\ UNCHANGED <<now, mouseDown>>

\* the sliders and buttons of the side panel
SetStyle(v) ==
    /\ ~mouseDown
    /\ v # strokeWidth
    /\ Render([World EXCEPT !.strokeWidth = v], activeLayerId, activeTool)
    /\ UNCHANGED <<now, mouseDown>>

SetGridSize(v) ==
    /\ ~mouseDown
    /\ v # gridSize
    /\ Len(objs) < MaxObjs
    /\ Render([World EXCEPT !.gridSize = v], activeLayerId, activeTool)
    /\ UNCHANGED <<now, mouseDown>>

ToggleGridVisibility ==
    /\ ~mouseDown
    /\ Len(objs) < MaxObjs
    /\ Render([World EXCEPT !.gridVisible = ~gridVisible], activeLayerId, activeTool)
    /\ UNCHANGED <<now, mouseDown>>

TogglePrintMode ==
    /\ ~mouseDown
    /\ Render([World EXCEPT !.isPrintMode = ~isPrintMode], activeLayerId, activeTool)
    /\ UNCHANGED <<now, mouseDown>>

\* the window is resized: updateCanvasSize sets the canvas width
Resize(v) ==
    /\ ~mouseDown
    /\ v # width
    /\ Render([World EXCEPT !.width = v], activeLayerId, activeTool)
    /\ UNCHANGED <<now, mouseDown>>

\* a key goes down, in a text field (inField) or not: both document listeners
\* run, Canvas.tsx's on the canvas, GridSketch.tsx's on the editor state
KeyDown(key, inField) ==
    /\ (key = "g" /\ ~inField) => Len(objs) < MaxObjs
    /\ Render(handleKeyDownFlags(handleKeyDownCanvas(World, key, initActive), key, inField),
              activeLayerId, handleKeyDownTool(activeTool, key, inField))
    /\ UNCHANGED <<now, mouseDown>>

SetTool(tool) ==
    /\ tool # activeTool
    /\ tool = "arrow" => ~mouseDown
    /\ Render(World, activeLayerId, tool)
    /\ UNCHANGED <<now, mouseDown>>

\* ids a press may need: an arrow takes its line now, head and group at release
IdsNeeded ==
    IF handlers.tool \in DragTools \cup {"text"} /\ ~pressRefused(handlers)
    THEN (IF handlers.tool = "arrow" THEN 3 ELSE 1)
    ELSE 0

MouseDown(pointer, hits) ==
    /\ ~mouseDown
    /\ Len(objs) + IdsNeeded <= MaxObjs
    /\ mouseDown' = TRUE
    /\ LET w0 == nativeMouseDown(World, hits)
           w1 == IF handlers.tool \in DragTools
                 THEN mouseDownDraw(w0, handlers, initActive, pointer)
                 ELSE IF handlers.tool = "text"
                 THEN mouseDownText(w0, handlers, initActive, pointer)
                 ELSE IF handlers.tool = "erase"
                 THEN mouseDownErase(w0, handlers, hits)
                 ELSE w0
       IN  Render(w1, activeLayerId, activeTool)
    /\ UNCHANGED now

MouseMove(pointer) ==
    /\ handlers.tool \in DragTools
    /\ Render(mouseMoveDraw(World, handlers, pointer), activeLayerId, activeTool)
    /\ UNCHANGED <<now, mouseDown>>

MouseUp ==
    /\ mouseDown
    /\ mouseDown' = FALSE
    /\ Render(IF handlers.tool \in DragTools
              THEN mouseUpDraw(World, handlers, initActive)
              ELSE nativeMouseUp(World, initActive),
              activeLayerId, activeTool)
    /\ UNCHANGED now

\* mouse:move in select mode with the button held on the selected object
DragObject(pointer) ==
    /\ mouseDown
    /\ Len(history) < MaxHistory
    /\ handlers.tool = "none"
    /\ activeObject # NoObject
    /\ Render(onObjectMoving(World, activeObject, pointer, initSnap, initGridSize),
              activeLayerId, activeTool)
    /\ UNCHANGED <<now, mouseDown>>

Undo ==
    /\ Render(performUndo(World, initActive), activeLayerId, activeTool)
    /\ UNCHANGED <<now, mouseDown>>

Redo ==
    /\ Render(performRedo(World, initActive), activeLayerId, activeTool)
    /\ UNCHANGED <<now, mouseDown>>

DeleteKey ==
    /\ Render(deleteSelection(World, initActive), activeLayerId, activeTool)
    /\ UNCHANGED <<now, mouseDown>>

\* the setTimeout(..., 0) callback of updateLayersWithObjects
ReleaseGuard ==
    /\ isLayerUpdateInProgress
    /\ isLayerUpdateInProgress' = FALSE
    /\ UNCHANGED <<regVars, propVars, canvasObjs, gridRef, tempPointRef, startPointRef,
                   gridShown, canvasWidth, history, historyIndex, layerObjectsMap, activeObject, objs,
                   closVars, mouseDown, discarded, actionPerformed, hookVars>>

\* the texts typed into the name field: a name or nothing, between spaces
Names == {<<"Calque", 1>>, <<"Calque", 2>>, <<"calque", 2>>, <<"Plan", 0>>}

Texts == {<<before, name, after>> :
             before \in 0..MaxPad, name \in Names \cup {Blank}, after \in 0..MaxPad}

\* the highest number a layer name carries
NumbersInUse(ls) == SetMax({ls[i].name[2] : i \in 1..Len(ls)} \cup {0})

Keys == {"v", "l", "c", "r", "t", "e", "g", "s", "ctrl+z", "ctrl+y", "Delete"}

Widths == {InitialWidth, NarrowWidth}

GridSizes == {InitialGridSize, OtherGridSize}

ShapesOnCanvas == {o \in Range(canvasObjs) : IsShape(o)}

Next ==
    \/ \E t \in now..MaxClock : AddLayer(t)
    \/ \E id \in 0..MaxClock : RemoveLayer(id)
    \/ \E id \in LayerIds(layers) : SetActive(id)
    \/ \E id \in LayerIds(layers) : ToggleLock(id)
    \/ \E id \in LayerIds(layers) \cup {NoLayer}, text \in Texts :
           NumbersInUse(layers) < MaxNumber /\ SaveLayerName(id, text)
    \/ \E tool \in Tools : SetTool(tool)
    \/ \E id \in LayerIds(layers) : ToggleVisibility(id)
    \/ \E v \in 1..MaxStroke : SetStyle(v)
    \/ \E v \in GridSizes : SetGridSize(v)
    \/ ToggleGridVisibility
    \/ TogglePrintMode
    \/ \E v \in Widths : Resize(v)
    \/ \E key \in Keys, inField \in BOOLEAN : KeyDown(key, inField)
    \/ \E pointer \in Pointers, hits \in SUBSET ShapesOnCanvas : MouseDown(pointer, hits)
    \/ \E pointer \in Pointers : MouseMove(pointer)
    \/ \E pointer \in Pointers : DragObject(pointer)
    \/ MouseUp
    \/ Undo
    \/ Redo
    \/ DeleteKey
    \/ ReleaseGuard

Spec == Init /\ [][Next]_vars

\* ------------------------------------------------- narrower environments
\* The same actions with fewer of them offered, so that histories of a few
\* shapes can be explored exhaustively.

\* the layer panel alone
NextRegistry ==
    \/ \E t \in now..MaxClock : AddLayer(t)
    \/ \E id \in 0..MaxClock : RemoveLayer(id)
    \/ \E id \in LayerIds(layers) : SetActive(id)
    \/ \E id \in LayerIds(layers) : ToggleLock(id)
    \/ ReleaseGuard

SpecRegistry == Init /\ [][NextRegistry]_vars

\* the setTimeout(..., 0) of the last handler has run: input events come
\* further apart than a timer tick
Settled == ~isLayerUpdateInProgress

\* one layer; select, line and erase; undo, redo, delete
NextHistory ==
    \/ Settled /\ \E tool \in {"select", "line", "erase"} : SetTool(tool)
    \/ Settled /\ \E hits \in SUBSET ShapesOnCanvas :
           Len(objs) + IdsNeeded <= FewObjs /\ MouseDown(PointerTable[1], hits)
    \/ Settled /\ \E pointer \in Pointers : MouseMove(pointer)
    \/ Settled /\ MouseUp
    \/ Settled /\ Undo
    \/ Settled /\ Redo
    \/ Settled /\ DeleteKey
    \/ ReleaseGuard

SpecHistory == Init /\ [][NextHistory]_vars

\* one layer and its lock; the drawing tools, chosen with the pointer up
NextDraw ==
    \/ Settled /\ \E tool \in DragTools \cup {"text"} : ~mouseDown /\ SetTool(tool)
    \/ Settled /\ ToggleLock(InitialLayerId)
    \/ Settled /\ \E pointer \in Pointers : MouseDown(pointer, {})
    \/ Settled /\ \E pointer \in Pointers : MouseMove(pointer)
    \/ Settled /\ MouseUp
    \/ ReleaseGuard

SpecDraw == Init /\ [][NextDraw]_vars

\* several layers; the line tool, chosen with the pointer up
NextLayers ==
    \/ \E t \in now..MaxClock : AddLayer(t)
    \/ \E id \in LayerIds(layers) : SetActive(id)
    \/ \E tool \in {"select", "line"} : ~mouseDown /\ SetTool(tool)
    \/ \E pointer \in Pointers :
           Len(objs) + IdsNeeded <= FewObjs /\ MouseDown(pointer, {})
    \/ \E pointer \in Pointers : MouseMove(pointer)
    \/ MouseUp
    \/ ReleaseGuard

SpecLayers == Init /\ [][NextLayers]_vars

\* ------------------------------------------------------------ properties
ListOf(layerId) == MapGet(layerObjectsMap, layerId)

HasAddEntry(o) ==
    \E i \in 1..Len(history) : history[i].type = "add" /\ Includes(history[i].objects, o)

InSomeList(o) ==
    \E i \in 1..Len(layerObjectsMap) : Includes(layerObjectsMap[i].val, o)

\* C1: after any sequence of addLayer and removeLayer calls, with any ids, the
\* layer list is non-empty and activeLayerId is the id of a layer in the list.
C1_ActiveLayerExists ==
    Len(layers) >= 1 /\ activeLayerId \in LayerIds(layers)

\* C2: a record made with the cursor at index i discards every entry above i,
\* puts the new entry at i+1 and moves the cursor to i+1, so the log then has
\* cursor+1 entries and none of the undone ones.  (A step that changes the log
\* is a record; positions are 1-based here, the cursor 0-based as in the code.)
C2_RecordCutsRedoBranch ==
    [][history' # history =>
          /\ historyIndex' = historyIndex + 1
          /\ Len(history') = historyIndex' + 1
          /\ \A i \in 1..(historyIndex + 1) : history'[i] = history[i]]_vars

\* C2 happens: the latest record cut two undone entries off the log
C2_Witness == discarded >= 2 /\ historyIndex = Len(history) - 1

\* press at p, move to q, release, by the installed handlers
Gesture(p, q) ==
    mouseUpDraw(mouseMoveDraw(mouseDownDraw(World, handlers, initActive, p), handlers, q),
                handlers, initActive)

\* an armed drawing tool with nothing in progress
ReadyToDraw ==
    /\ ~mouseDown /\ cur = NoObject
    /\ handlers.tool \in DragTools
    /\ ~pressRefused(handlers)
    /\ Len(objs) + IdsNeeded <= MaxObjs

Snapped(p) == snapToGridPoint(p, snapToGrid, gridSize)

\* the list of the layer named by the entry at the cursor of w
AffectedList(w, at) == MapGet(w.layerObjectsMap, at.history[at.historyIndex + 1].layerId)

UndoThenRedo(w) == performRedo(performUndo(w, initActive), initActive)

\* C3: for a completed gesture recorded as an Add or a Remove entry, performUndo
\* followed by performRedo leaves the affected layer's object list with the
\* contents, in the order, it had before the undo.  The gestures: a drag of
\* non-zero extent with an armed drawing tool, a click of the eraser on a shape.
C3_UndoRedoRoundTrip ==
    /\ ReadyToDraw =>
           \A p, q \in Pointers :
               Snapped(p) # Snapped(q) =>
                   AffectedList(UndoThenRedo(Gesture(p, q)), Gesture(p, q))
                       = AffectedList(Gesture(p, q), Gesture(p, q))
    /\ (~mouseDown /\ handlers.tool = "erase") =>
           \A o \in ShapesOnCanvas :
               LET erased == mouseDownErase(World, handlers, {o})
               IN  erased.history # history =>
                       AffectedList(UndoThenRedo(erased), erased)
                           = AffectedList(erased, erased)

\* a shape a release found with zero extent and took off the surface
DiscardedAtRelease(o) ==
    /\ objs[o].kind \in {"line", "circle", "rectangle"}
    /\ isZeroExtent(objs[o])
    /\ o # cur
    /\ ~Includes(canvasObjs, o)

\* C4: after the release of a line, arrow, circle or rectangle gesture of zero
\* extent the log holds no Add entry for the shape and no layer's list holds it.
C4_ZeroExtentLeavesNothing ==
    \A o \in 1..Len(objs) :
        DiscardedAtRelease(o) => ~HasAddEntry(o) /\ ~InSomeList(o)

ActiveLayerLocked ==
    FindLayer(layers, activeLayerId) # 0 /\ layers[FindLayer(layers, activeLayerId)].locked

\* C5: a press with a drawing tool while the active layer is locked creates no
\* shape and appends no history entry, whatever lock, layer and tool changes
\* came before it.
C5_LockedPressCreatesNothing ==
    [][(~mouseDown /\ mouseDown' /\ ActiveLayerLocked
            /\ activeTool \in DragTools \cup {"text"})
          => (objs' = objs /\ history' = history)]_vars

\* C6: the log grows only at release: while the button is held in a line,
\* arrow, circle or rectangle gesture (the press, the moves) no entry is appended.
C6_NoRecordBeforeRelease ==
    [][(mouseDown' /\ handlers.tool \in DragTools) => history' = history]_vars

\* C7: a completed gesture of non-zero extent adds exactly one shape to the
\* active layer's list and exactly one Add entry to the log; an arrow too.
C7_OneShapeOneEntry ==
    ReadyToDraw =>
        \A p, q \in Pointers :
            Snapped(p) # Snapped(q)
            => /\ Len(MapGet(Gesture(p, q).layerObjectsMap, activeLayerId))
                     = Len(ListOf(activeLayerId)) + 1
               /\ Len(Gesture(p, q).history) = historyIndex + 2

\* a shape whose gesture ended with the commit branch (no tool or layer change
\* between press and release in SpecLayers)
Committed(o) ==
    /\ objs[o].kind \in {"line", "circle", "rectangle"}
    /\ ~isZeroExtent(objs[o])
    /\ o # cur
    /\ Includes(canvasObjs, o)

\* C8: each committed shape is in the list of exactly one layer, the layer its
\* layerId tag names, also when drawn after setActive chose an existing layer.
C8_OneOwningLayer ==
    \A o \in 1..Len(objs) :
        Committed(o) =>
            \A i \in 1..Len(layerObjectsMap) :
                Includes(layerObjectsMap[i].val, o) <=> layerObjectsMap[i].key = objs[o].layerId

\* C9: after any gestures, erases, deletes, undos and redos no layer's list
\* holds the same shape twice.
C9_NoDuplicateMembers ==
    \A i \in 1..Len(layerObjectsMap) :
        \A o \in Range(layerObjectsMap[i].val) : Count(layerObjectsMap[i].val, o) = 1

\* C10: an undo or redo step leaves the log as it was, entries and length.
C10_ReplayNeverRecords ==
    [][(Undo \/ Redo) => history' = history]_vars

\* C10 happens: a Remove entry has been undone and its replay put the shape
\* back on the surface with canvas.add
C10_Witness ==
    /\ historyIndex < Len(history) - 1
    /\ history[historyIndex + 2].type = "remove"
    /\ Includes(canvasObjs, history[historyIndex + 2].objects[1])

\* C11: performUndo with the cursor at -1 and performRedo with the cursor on
\* the last entry change nothing: log, cursor, surface, every layer's list.
C11_UndoRedoAtEndsAreNoOps ==
    /\ historyIndex < 0 => performUndo(World, initActive) = World
    /\ historyIndex >= Len(history) - 1 => performRedo(World, initActive) = World

\* C11 happens: every entry of a log of several has been undone
C11_Witness == historyIndex = -1 /\ Len(history) >= 2

\* one layer; draw a line, select it and drag it; undo, redo
NextModify ==
    \/ Settled /\ \E tool \in {"select", "line"} : ~mouseDown /\ SetTool(tool)
    \/ Settled /\ \E hits \in SUBSET ShapesOnCanvas :
           Len(objs) + IdsNeeded < FewObjs /\ MouseDown(PointerTable[1], hits)
    \/ Settled /\ \E pointer \in Pointers : MouseMove(pointer)
    \/ Settled /\ \E pointer \in Pointers : DragObject(pointer)
    \/ Settled /\ MouseUp
    \/ Settled /\ ~mouseDown /\ Undo
    \/ Settled /\ ~mouseDown /\ Redo
    \/ ReleaseGuard

SpecModify == Init /\ [][NextModify]_vars

Geometry(o) == <<o.left, o.top>>

\* the held object dragged to p and released: object:moving, then object:modified
MovedTo(p) ==
    nativeMouseUp(onObjectMoving(World, activeObject, p, initSnap, initGridSize), initActive)

\* the button is down on a selected shape that has not moved yet
HoldingSelected ==
    /\ mouseDown /\ handlers.tool = "none"
    /\ activeObject # NoObject /\ ~actionPerformed

\* C12: undo of a Modify entry puts the shape's geometry back to what it was
\* before the move, and redo of the entry gives the geometry after the move.
C12_ModifyUndoRestoresGeometry ==
    HoldingSelected =>
        \A p \in Pointers :
            Geometry(MovedTo(p).objs[activeObject]) # Geometry(objs[activeObject]) =>
                /\ Geometry(performUndo(MovedTo(p), initActive).objs[activeObject])
                       = Geometry(objs[activeObject])
                /\ Geometry(UndoThenRedo(MovedTo(p)).objs[activeObject])
                       = Geometry(MovedTo(p).objs[activeObject])

\* layers come and go around line gestures; undo, redo
NextOrphan ==
    \/ Settled /\ \E t \in now..MaxClock : AddLayer(t)
    \/ Settled /\ \E id \in LayerIds(layers) : RemoveLayer(id)
    \/ Settled /\ \E tool \in {"select", "line"} : ~mouseDown /\ SetTool(tool)
    \/ Settled /\ Len(objs) + IdsNeeded < FewObjs /\ MouseDown(PointerTable[1], {})
    \/ Settled /\ \E pointer \in Pointers : MouseMove(pointer)
    \/ Settled /\ MouseUp
    \/ Settled /\ ~mouseDown /\ Undo
    \/ Settled /\ ~mouseDown /\ Redo
    \/ ReleaseGuard

SpecOrphan == Init /\ [][NextOrphan]_vars

\* the entry is about a drawn line of some extent and names a layer that is
\* not in the layer list any more
Orphaned(entry) ==
    /\ entry.layerId \notin LayerIds(layers)
    /\ \A i \in 1..Len(entry.objects) :
           objs[entry.objects[i]].kind = "line" /\ ~isZeroExtent(objs[entry.objects[i]])

\* w put no shape on the surface and changed the list of no layer of the list
SafeNoOp(w) ==
    /\ Range(w.canvasObjs) \subseteq Range(canvasObjs)
    /\ \A id \in LayerIds(layers) : MapGet(w.layerObjectsMap, id) = ListOf(id)

\* C13: undo of an entry at the cursor, or redo of the entry above it, whose
\* layerId names a layer removed since the entry was recorded puts no shape on
\* the surface and changes the list of no layer that exists.
C13_OrphanedEntryIsSafeNoOp ==
    /\ (historyIndex >= 0 /\ Orphaned(history[historyIndex + 1]))
           => SafeNoOp(performUndo(World, initActive))
    /\ (historyIndex < Len(history) - 1 /\ Orphaned(history[historyIndex + 2]))
           => SafeNoOp(performRedo(World, initActive))

\* the scenario of C14: line and rectangle tools on the first layer, a rejected
\* removal, one more layer, undo and redo
NextScenario ==
    \/ Settled /\ \E tool \in {"line", "rectangle"} : ~mouseDown /\ SetTool(tool)
    \/ Settled /\ Len(objs) + IdsNeeded <= FewObjs /\ MouseDown(PointerTable[1], {})
    \/ Settled /\ MouseMove(PointerTable[2])
    \/ Settled /\ MouseUp
    \/ Settled /\ RemoveLayer(InitialLayerId)
    \/ Settled /\ Len(layers) < 2 /\ AddLayer(now)
    \/ Settled /\ ~mouseDown /\ Undo
    \/ Settled /\ ~mouseDown /\ Redo
    \/ ReleaseGuard

SpecScenario == Init /\ [][NextScenario]_vars

\* a drawn shape of the given kind, of some extent, recorded for the first layer
DrawnOnFirst(entry, kind) ==
    /\ entry.type = "add" /\ entry.layerId = InitialLayerId
    /\ objs[entry.objects[1]].kind = kind
    /\ ~isZeroExtent(objs[entry.objects[1]])

\* where the scenario ends: the log holds the line and then the rectangle, both
\* drawn on the first layer (so before addLayer made the second one active);
\* the cursor is on the line's entry, and the line is on the surface that
\* addLayer's render created, so a redo put it there
ScenarioEnd ==
    /\ ~mouseDown /\ cur = NoObject /\ Settled
    /\ Len(layers) = 2 /\ layers[1].id = InitialLayerId
    /\ Len(history) = 3 /\ historyIndex = 1
    /\ DrawnOnFirst(history[2], "line")
    /\ DrawnOnFirst(history[3], "rectangle")
    /\ Includes(canvasObjs, history[2].objects[1])

\* C14: one layer, a line, a rectangle, removeLayer of the only layer, addLayer,
\* undo, undo, redo: the first layer's list is then exactly the line.
C14_ScenarioLeavesTheLine ==
    ScenarioEnd => ListOf(InitialLayerId) = <<history[2].objects[1]>>

\* C15: removeLayer(id) with exactly one layer in the list changes nothing: the
\* layer list (so that layer's flags and objects) and activeLayerId stay.
C15_RemoveLastLayerIsNoOp ==
    Len(layers) = 1 =>
        \A id \in 0..MaxClock :
            /\ removeLayerLayers(layers, id) = layers
            /\ removeLayerActive(layers, activeLayerId, id) = activeLayerId

\* C15 happens: removals have left a single layer, one that addLayer made
C15_Witness == Len(layers) = 1 /\ layers[1].id # InitialLayerId

\* C18: the ids of the layers in the list are pairwise distinct, also after two
\* addLayer calls at one clock reading and after removals.
C18_LayerIdsDistinct ==
    \A i, j \in 1..Len(layers) : i # j => layers[i].id # layers[j].id

\* C16: with two layers or more, removeLayer of the active layer makes the
\* first of the layers that remain the active one; removeLayer of another layer
\* leaves activeLayerId as it is.
C16_RemoveActivePicksFirstRemaining ==
    Len(layers) >= 2 =>
        \A id \in 0..MaxClock :
            IF id = activeLayerId
            THEN /\ removeLayerLayers(layers, id) # <<>>
                 /\ removeLayerActive(layers, activeLayerId, id)
                        = removeLayerLayers(layers, id)[1].id
            ELSE removeLayerActive(layers, activeLayerId, id) = activeLayerId

\* C17: a step that adds a layer puts it at the end of the list, keeps the
\* layers that were there, in their order and as they were, makes the new one
\* visible, unlocked and without objects, and makes its id the active id.
C17_AddLayerAppendsAndActivates ==
    [][Len(layers') = Len(layers) + 1 =>
          /\ SubSeq(layers', 1, Len(layers)) = layers
          /\ layers'[Len(layers')].visible
          /\ ~layers'[Len(layers')].locked
          /\ layers'[Len(layers')].objects = <<>>
          /\ activeLayerId' = layers'[Len(layers')].id]_vars

\* C17 happens: a third layer was added, and is active, behind a layer that
\* holds a shape
C17_Witness ==
    /\ Len(layers) = 3 /\ activeLayerId = layers[3].id
    /\ \E o \in Range(layers[1].objects) : IsShape(o) /\ objs[o].kind = "line"

\* the layer panel of the hook, with the name field
NextNames ==
    \/ \E t \in now..MaxClock : NumbersInUse(layers) < MaxNumber /\ AddLayer(t)
    \/ \E id \in 0..MaxClock : RemoveLayer(id)
    \/ \E id \in LayerIds(layers) \cup {NoLayer}, text \in Texts :
           NumbersInUse(layers) < MaxNumber /\ SaveLayerName(id, text)
    \/ ReleaseGuard

SpecNames == Init /\ [][NextNames]_vars

\* the layer panel of GridSketch.tsx, with the name field
NextInline ==
    \/ \E t \in now..MaxClock : AddLayerGridSketch(t)
    \/ \E id \in 0..MaxClock : RemoveLayerGridSketch(id)
    \/ \E id \in LayerIds(layers) \cup {NoLayer}, text \in Texts :
           SaveLayerNameGridSketch(id, text)
    \/ ReleaseGuard

SpecInline == Init /\ [][NextInline]_vars

\* C19: whatever addLayer, removeLayer and saveLayerName calls came before, no
\* two layers carry the same name of the form "Calque N".
C19_DefaultNamesDistinct ==
    \A i, j \in 1..Len(layers) :
        (i # j /\ isDefaultFormat(layers[i].name)) => layers[i].name # layers[j].name

\* C20: closing the name field on an empty or all-blank text changes no name,
\* no layer and not the active id.
C20_BlankRenameIsNoOp ==
    [][\A id \in LayerIds(layers) \cup {NoLayer}, text \in Texts :
           (trim(text) = Blank /\ (SaveLayerName(id, text) \/ SaveLayerNameGridSketch(id, text)))
               => UNCHANGED <<layers, activeLayerId>>]_vars

\* C20 happens: the name field has given a layer a name of its own, and the
\* layer can be renamed again
C20_Witness ==
    /\ \E i \in 1..Len(layers) : layers[i].name = <<"Plan", 0>>
    /\ NumbersInUse(layers) < MaxNumber

\* tools, layers and style change around presses, moves and releases
NextTools ==
    \/ Settled /\ \E tool \in Tools : SetTool(tool)
    \/ Settled /\ \E t \in now..MaxClock : Len(layers) < 2 /\ AddLayer(t)
    \/ Settled /\ \E id \in LayerIds(layers) : SetActive(id)
    \/ Settled /\ \E v \in 1..MaxStroke : SetStyle(v)
    \/ Settled /\ Len(objs) + IdsNeeded < FewObjs /\ MouseDown(PointerTable[1], {})
    \/ Settled /\ MouseMove(PointerTable[2])
    \/ Settled /\ MouseUp
    \/ ReleaseGuard

SpecTools == Init /\ [][NextTools]_vars

\* C21: at most one tool's press / move / release handlers are bound to the
\* surface, and a bound handler was installed for the tool and the layer
\* that are active now: none is left from before the latest switch.
C21_OnlyCurrentHandlersBound ==
    /\ Len(bound) <= 1
    /\ \A i \in 1..Len(bound) :
           bound[i].tool = activeTool /\ bound[i].activeLayerId = activeLayerId

\* C21 happens: the tool was switched to the eraser while a line was being
\* dragged; the button is still down and the eraser's handler is the one bound
C21_Witness ==
    /\ mouseDown /\ Len(bound) = 1 /\ bound[1].tool = "erase"
    /\ startPointRef # NoPoint /\ tempPointRef # NoObject
    /\ \E o \in ShapesOnCanvas : objs[o].kind = "line"

\* C22: after a step that changes the active layer, the active tool or the
\* style settings, the handlers of the active tool (line, arrow, circle,
\* rectangle, text, erase) are bound, with the active layer in their closure.
C22_HandlersFollowEveryChange ==
    [][((activeLayerId' # activeLayerId \/ activeTool' # activeTool
            \/ strokeWidth' # strokeWidth) /\ activeTool' # "select")
          => (/\ bound' # <<>>
              /\ bound'[1].tool = activeTool'
              /\ bound'[1].activeLayerId = activeLayerId')]_vars

\* two layers with their lock and eye buttons; select, line and erase
NextGate ==
    \/ Settled /\ \E t \in now..MaxClock : Len(layers) < 2 /\ AddLayer(t)
    \/ Settled /\ \E id \in LayerIds(layers) : SetActive(id)
    \/ Settled /\ \E id \in LayerIds(layers) : ToggleLock(id)
    \/ Settled /\ \E id \in LayerIds(layers) : ToggleVisibility(id)
    \/ Settled /\ \E tool \in {"select", "line", "erase"} : ~mouseDown /\ SetTool(tool)
    \/ Settled /\ \E hits \in SUBSET ShapesOnCanvas :
           Len(objs) + IdsNeeded < FewObjs /\ MouseDown(PointerTable[1], hits)
    \/ Settled /\ MouseMove(PointerTable[2])
    \/ Settled /\ MouseUp
    \/ ReleaseGuard

SpecGate == Init /\ [][NextGate]_vars

\* the layer of id is in the list ls, is the active one and is not locked
ActiveAndUnlocked(ls, active, id) ==
    id = active /\ FindLayer(ls, id) # 0 /\ ~ls[FindLayer(ls, id)].locked

\* the double gate on the shapes of the surface cs, with fields os
DoubleGate(os, cs, ls, active, tool) ==
    \A o \in Range(cs) :
        IsShape(o) /\ os[o].kind # "grid" =>
            /\ os[o].evented => ActiveAndUnlocked(ls, active, os[o].layerId)
            /\ os[o].selectable =>
                   ActiveAndUnlocked(ls, active, os[o].layerId) /\ tool = "select"

LockFlags(ls) == [i \in 1..Len(ls) |-> ls[i].locked]

\* C23: after a step that changes activeLayerId, a lock flag or the tool, a
\* shape on the surface is evented only if its layer is the active one and
\* unlocked, and selectable only if moreover the tool is select.
C23_DoubleGateAfterChange ==
    [][(activeLayerId' # activeLayerId \/ activeTool' # activeTool
            \/ LockFlags(layers') # LockFlags(layers))
          => DoubleGate(objs', canvasObjs', layers', activeLayerId', activeTool')]_vars

\* the shape o carries the id of a layer of the list that is hidden
OnHiddenLayer(o) ==
    /\ FindLayer(layers, objs[o].layerId) # 0
    /\ ~layers[FindLayer(layers, objs[o].layerId)].visible

ActiveLayerHidden ==
    FindLayer(layers, activeLayerId) # 0 /\ ~layers[FindLayer(layers, activeLayerId)].visible

\* C24: a press with a drawing tool while the active layer is hidden creates
\* no shape, and a press of the eraser leaves every shape of a hidden layer
\* on the surface.
C24_HiddenLayerIgnoresTools ==
    [][(~mouseDown /\ mouseDown') =>
          /\ (ActiveLayerHidden /\ activeTool \in DragTools \cup {"text"}) => objs' = objs
          /\ activeTool = "erase" =>
                 \A o \in ShapesOnCanvas : OnHiddenLayer(o) => Includes(canvasObjs', o)]_vars

\* C25: a press of the eraser leaves on the surface every shape that carries
\* the id of a layer other than the active one, also one under the pointer.
C25_EraseOnlyActiveLayer ==
    [][(~mouseDown /\ mouseDown' /\ activeTool = "erase") =>
          \A o \in ShapesOnCanvas :
              (objs[o].kind # "grid" /\ objs[o].layerId # activeLayerId)
                  => Includes(canvasObjs', o)]_vars

\* the layer of the shape o is locked now
LockedNow(o) ==
    /\ FindLayer(layers, objs[o].layerId) # 0
    /\ layers[FindLayer(layers, objs[o].layerId)].locked

\* the topmost shape under the pointer whose layer is not locked now
TopmostUnlockedHit(hits) ==
    LET candidates == {i \in 1..Len(canvasObjs) :
                          /\ canvasObjs[i] \in hits /\ IsShape(canvasObjs[i])
                          /\ objs[canvasObjs[i]].kind # "grid"
                          /\ ~LockedNow(canvasObjs[i])}
    IN  IF candidates = {} THEN NoObject ELSE canvasObjs[SetMax(candidates)]

\* C26: a click of the eraser on the shapes hits removes the topmost of them
\* whose layer is unlocked at the click, and nothing else: it leaves the
\* surface and its layer's list and one Remove entry with its layer id is
\* recorded; when every hit is on a locked layer nothing is removed.
C26_EraseTopmostUnlocked ==
    [][\A hits \in SUBSET ShapesOnCanvas :
           (~mouseDown /\ activeTool = "erase" /\ MouseDown(PointerTable[1], hits)) =>
               LET target == TopmostUnlockedHit(hits)
               IN  IF target = NoObject
                   THEN canvasObjs' = canvasObjs /\ history' = history
                   ELSE /\ canvasObjs' = SpliceAt(canvasObjs, IndexOf(canvasObjs, target))
                        /\ ~Includes(MapGet(layerObjectsMap', objs[target].layerId), target)
                        /\ history' = Append(SubSeq(history, 1, historyIndex + 1),
                                             [objects |-> <<target>>, type |-> "remove",
                                              layerId |-> objs[target].layerId])]_vars

\* the grid controls and the window size around line gestures and undo
NextGrid ==
    \/ Settled /\ \E v \in GridSizes : SetGridSize(v)
    \/ Settled /\ ToggleGridVisibility
    \/ Settled /\ \E v \in Widths : Resize(v)
    \/ Settled /\ \E tool \in {"select", "line"} : ~mouseDown /\ SetTool(tool)
    \/ Settled /\ Len(objs) + IdsNeeded < FewObjs /\ MouseDown(PointerTable[1], {})
    \/ Settled /\ MouseMove(PointerTable[2])
    \/ Settled /\ MouseUp
    \/ Settled /\ ~mouseDown /\ Undo
    \/ ReleaseGuard

SpecGrid == Init /\ [][NextGrid]_vars

\* C27: the grid overlay is in no history entry and in no layer's list.
C27_GridOutsideHistoryAndLists ==
    /\ \A i \in 1..Len(history) : ~Includes(history[i].objects, gridRef)
    /\ \A i \in 1..Len(layerObjectsMap) : ~Includes(layerObjectsMap[i].val, gridRef)

\* C28: a change of the viewport size deletes no shape: each committed shape is
\* still on the drawing surface and in the same layer's list after it.
C28_ResizeKeepsShapes ==
    [][width' # width =>
           \A o \in {s \in ShapesOnCanvas : Committed(s)} :
               /\ Includes(canvasObjs', o)
               /\ \A i \in 1..Len(layerObjectsMap) :
                      Includes(layerObjectsMap[i].val, o)
                      => /\ i <= Len(layerObjectsMap')
                         /\ layerObjectsMap'[i].key = layerObjectsMap[i].key
                         /\ Includes(layerObjectsMap'[i].val, o)]_vars

\* the keyboard around line gestures and selection clicks: the tool letters v
\* and l typed on the page, every key typed in a text field
NextKeys ==
    \/ Settled /\ \E hits \in SUBSET ShapesOnCanvas :
           Len(objs) + IdsNeeded < FewObjs /\ MouseDown(PointerTable[1], hits)
    \/ Settled /\ MouseMove(PointerTable[2])
    \/ Settled /\ MouseUp
    \/ Settled /\ \E key \in {"v", "l"} : ~mouseDown /\ KeyDown(key, FALSE)
    \/ Settled /\ \E key \in Keys : ~mouseDown /\ KeyDown(key, TRUE)
    \/ ReleaseGuard

SpecKeys == Init /\ [][NextKeys]_vars

\* C29: while a text field has the focus, no key press changes the tool, the
\* grid's visibility, the snap flag, the history cursor or any shape.
C29_KeysInFieldHaveNoEffect ==
    [][\A key \in Keys :
           KeyDown(key, TRUE)
           => UNCHANGED <<activeTool, gridVisible, gridShown, snapToGrid,
                          historyIndex, objs, canvasObjs>>]_vars

\* print mode, the grid controls, the window size and the layer panel
NextPrint ==
    \/ Settled /\ TogglePrintMode
    \/ Settled /\ \E v \in GridSizes : SetGridSize(v)
    \/ Settled /\ ToggleGridVisibility
    \/ Settled /\ \E v \in Widths : Resize(v)
    \/ Settled /\ Len(layers) < 2 /\ AddLayer(now)
    \/ Settled /\ \E id \in LayerIds(layers) : RemoveLayer(id)
    \/ ReleaseGuard

SpecPrint == Init /\ [][NextPrint]_vars

\* C30: whenever print mode is set, the grid overlay is not visible.
C30_PrintModeHidesGrid == isPrintMode => ~gridShown

\* the rectangle tool: presses at (5,5), moves to the four pointer positions
RectPointers == {PointerTable[i] : i \in 1..4}

NextRect ==
    \/ Settled /\ \E tool \in {"select", "rectangle"} : ~mouseDown /\ SetTool(tool)
    \/ Settled /\ MouseDown(PointerTable[1], {})
    \/ Settled /\ \E pointer \in RectPointers : MouseMove(pointer)
    \/ Settled /\ MouseUp
    \/ Settled /\ ~mouseDown /\ Undo
    \/ ReleaseGuard

SpecRect == Init /\ [][NextRect]_vars

\* the release of a rectangle gesture whose rectangle has zero area
ZeroAreaRelease ==
    /\ mouseDown /\ MouseUp
    /\ handlers.tool = "rectangle"
    /\ cur # NoObject /\ startPointRef # NoPoint
    /\ objs[cur].width = 0 \/ objs[cur].height = 0

\* C31: a rectangle gesture released with zero area (snapped width 0 or snapped
\* height 0) is discarded: after the release the rectangle is not on the
\* surface and not in any layer's list.
C31_ZeroAreaRectangleDiscarded ==
    [][ZeroAreaRelease =>
           /\ ~Includes(canvasObjs', cur)
           /\ \A i \in 1..Len(layerObjectsMap') : ~Includes(layerObjectsMap'[i].val, cur)]_vars

\* pointer coordinates on and off the grid lines, left of and above the canvas
\* origin included, and the cell sizes of the grid-size slider
SnapCoords == {-15, -5, 0, 18, 20, 30, 33}

SnapPoints == {<<x, y>> : x, y \in SnapCoords}

SliderSizes == {10, 15, 20, 25, 30, 50}

OnGridLine(p, c) == p[1] % c = 0 /\ p[2] % c = 0

\* presses of the line tool anywhere, after any moves of the grid-size slider
NextSnap ==
    \/ Settled /\ \E v \in SliderSizes : SetGridSize(v)
    \/ Settled /\ \E tool \in {"select", "line"} : ~mouseDown /\ SetTool(tool)
    \/ Settled /\ \E p \in SnapPoints : MouseDown(p, {})
    \/ Settled /\ MouseUp
    \/ ReleaseGuard

SpecSnap == Init /\ [][NextSnap]_vars

\* a press at p that the line tool accepts and snaps
SnappingPress(p) ==
    /\ handlers.tool = "line" /\ handlers.snapToGrid /\ ~pressRefused(handlers)
    /\ MouseDown(p, {})

\* C32: with snapping on, for every integer point p and cell size c > 0,
\* snap(snap(p, c), c) = snap(p, c), and snap(p, c) = p when both coordinates
\* of p are multiples of c.
C32_SnapIdempotent ==
    [][\A p \in SnapPoints :
           SnappingPress(p)
           => /\ startPointRef' = snapToGridPoint(p, TRUE, handlers.gridSize)
              /\ snapToGridPoint(startPointRef', TRUE, handlers.gridSize) = startPointRef'
              /\ OnGridLine(p, handlers.gridSize) => startPointRef' = p]_vars

\* a press at (33,18) with cell size 15 started the line at (30,15)
C32_Witness ==
    /\ mouseDown /\ handlers.tool = "line" /\ handlers.snapToGrid
    /\ handlers.gridSize = 15
    /\ startPointRef = <<30, 15>>

\* the drags of the scenario: the line from (5,5) to (33,18), the rectangle
\* from (50,50) to (10,90)
DragFrom(tool) == IF tool = "rectangle" THEN <<50, 50>> ELSE PointerTable[1]

DragTo(tool) == IF tool = "rectangle" THEN <<10, 90>> ELSE PointerTable[2]

NextDrag ==
    \/ Settled /\ \E tool \in {"select", "line", "rectangle"} : ~mouseDown /\ SetTool(tool)
    \/ Settled /\ MouseDown(DragFrom(handlers.tool), {})
    \/ Settled /\ MouseMove(DragTo(handlers.tool))
    \/ Settled /\ MouseUp
    \/ Settled /\ ~mouseDown /\ Undo
    \/ Settled /\ ~mouseDown /\ Redo
    \/ ReleaseGuard

SpecDrag == Init /\ [][NextDrag]_vars

\* the release of a gesture of the given tool that was dragged to its end point
DraggedRelease(tool) ==
    /\ mouseDown /\ MouseUp
    /\ handlers.tool = tool
    /\ cur # NoObject /\ startPointRef # NoPoint
    /\ ~isZeroExtent(objs[cur])

LineAsSnapped(o) == o.x1 = 0 /\ o.y1 = 0 /\ o.x2 = 40 /\ o.y2 = 20

\* C33 as stated: with cell size 20 and snap on, the line dragged from (5,5) to
\* (33,18) has endpoints (0,0) and (40,20), and the rectangle dragged from
\* (50,50) to (10,90) has origin (0,40), width >= 40 and height >= 40.
C33_ScenarioAsStated ==
    [][/\ DraggedRelease("line") => LineAsSnapped(objs'[cur])
       /\ DraggedRelease("rectangle") =>
              /\ objs'[cur].left = 0 /\ objs'[cur].top = 40
              /\ objs'[cur].width >= 40 /\ objs'[cur].height >= 40]_vars

\* C33 amended: the same line, and the rectangle has origin (20,60), width 40
\* and height 40 (Math.round takes the half cells 50, 10 and 90 up to 60, 20
\* and 100; the origin is the smaller coordinate on each axis).
C33_ScenarioHalfCellsUp ==
    [][/\ DraggedRelease("line") => LineAsSnapped(objs'[cur])
       /\ DraggedRelease("rectangle") =>
              /\ objs'[cur].left = 20 /\ objs'[cur].top = 60
              /\ objs'[cur].width = 40 /\ objs'[cur].height = 40]_vars

\* both shapes of the scenario are committed
C33_Witness ==
    /\ ~mouseDown
    /\ \E o \in ShapesOnCanvas : objs[o].kind = "line" /\ LineAsSnapped(objs[o])
                                  /\ objs[o].selectable
    /\ \E o \in ShapesOnCanvas : /\ objs[o].kind = "rectangle" /\ objs[o].selectable
                                  /\ objs[o].left = 20 /\ objs[o].top = 60
                                  /\ objs[o].width = 40 /\ objs[o].height = 40

\* C34: in every reachable state the history cursor c satisfies
\* -1 <= c <= length(log) - 1.
C34_CursorWithinLog == -1 <= historyIndex /\ historyIndex <= Len(history) - 1

\* a record made with every entry undone left a log of one entry, the cursor
\* on it
C34_Witness == discarded >= 2 /\ historyIndex = 0 /\ Len(history) = 1

\* the shapes on the surface, the grid and the start marker left out
SurfaceShapes == {o \in ShapesOnCanvas : o # gridRef}

\* the shapes in the layers' lists (the grid left out)
ListedShapes ==
    {o \in 1..Len(objs) : o # gridRef /\ \E i \in 1..Len(layerObjectsMap) :
                                              Includes(layerObjectsMap[i].val, o)}

\* C35: whenever no gesture is in progress, the shapes on the surface are the
\* shapes in the layers' lists: none on the surface without a list, none in a
\* list without being on the surface.
C35_SurfaceEqualsLists ==
    (~mouseDown /\ cur = NoObject) => SurfaceShapes = ListedShapes

\* the layer panel's add and remove buttons around line gestures
NextFrame ==
    \/ Settled /\ ~mouseDown /\ \E t \in now..MaxClock : AddLayer(t)
    \/ Settled /\ ~mouseDown /\ \E id \in LayerIds(layers) : RemoveLayer(id)
    \/ Settled /\ \E id \in LayerIds(layers) : ~mouseDown /\ SetActive(id)
    \/ Settled /\ \E tool \in {"select", "line"} : ~mouseDown /\ SetTool(tool)
    \/ Settled /\ Len(objs) + IdsNeeded <= FewObjs /\ MouseDown(PointerTable[1], {})
    \/ Settled /\ MouseMove(PointerTable[2])
    \/ Settled /\ MouseUp
    \/ ReleaseGuard

SpecFrame == Init /\ [][NextFrame]_vars

\* a committed shape on the surface and in the list of the layer with this id
HeldBy(o, id, surface, lists) ==
    /\ Includes(surface, o)
    /\ MapHas(lists, id) /\ Includes(MapGet(lists, id), o)

\* C36: addLayer, and removeLayer of another layer, leave every surviving
\* layer's shapes where they were: on the surface and in that layer's list.
C36_LayerCallsKeepOtherShapes ==
    [][Len(layers') # Len(layers) =>
           \A o \in {s \in ShapesOnCanvas : Committed(s)} :
               \A id \in LayerIds(layers) \cap LayerIds(layers') :
                   HeldBy(o, id, canvasObjs, layerObjectsMap)
                   => HeldBy(o, id, canvasObjs', layerObjectsMap')]_vars

\* the surface is re-created under an armed tool: resizes and layer removals
\* around tool choices and presses
NextRebind ==
    \/ Settled /\ ~mouseDown /\ \E v \in Widths : Resize(v)
    \/ Settled /\ ~mouseDown /\ Len(layers) < 2 /\ AddLayer(now)
    \/ Settled /\ ~mouseDown /\ \E id \in LayerIds(layers) : RemoveLayer(id)
    \/ Settled /\ \E tool \in {"select", "line", "erase"} : ~mouseDown /\ SetTool(tool)
    \/ Settled /\ Len(objs) + IdsNeeded <= FewObjs /\ MouseDown(PointerTable[1], {})
    \/ Settled /\ MouseMove(PointerTable[2])
    \/ Settled /\ MouseUp
    \/ ReleaseGuard

SpecRebind == Init /\ [][NextRebind]_vars

\* C37: whenever a drawing tool or the eraser is the active tool, its press
\* handler is bound to the current surface.
C37_ArmedToolIsBound ==
    activeTool \in DragTools \cup {"text", "erase"}
    => Len(bound) >= 1 /\ bound[1].tool = activeTool

\* the grid-size slider and the snap key between line gestures
NextStale ==
    \/ Settled /\ ~mouseDown /\ \E v \in GridSizes : SetGridSize(v)
    \/ Settled /\ ~mouseDown /\ KeyDown("s", FALSE)
    \/ Settled /\ \E tool \in {"select", "line"} : ~mouseDown /\ SetTool(tool)
    \/ Settled /\ \E p \in Pointers : Len(objs) + IdsNeeded <= FewObjs /\ MouseDown(p, {})
    \/ Settled /\ \E p \in Pointers : MouseMove(p)
    \/ Settled /\ MouseUp
    \/ ReleaseGuard

SpecStale == Init /\ [][NextStale]_vars

\* where the editor's current grid settings put a pointer position
SnapNow(p) == snapToGridPoint(p, snapToGrid, gridSize)

\* C38: a gesture started after a change of the cell size or of the snap flag
\* snaps its press and its moves with the new settings (the settings only
\* change between gestures here).
C38_GridChangeAppliesToNextGesture ==
    [][\A p \in Pointers :
           /\ (handlers.tool = "line" /\ ~pressRefused(handlers) /\ MouseDown(p, {}))
              => startPointRef' = SnapNow(p)
           /\ (handlers.tool = "line" /\ mouseDown /\ cur # NoObject
                 /\ startPointRef # NoPoint /\ MouseMove(p))
              => objs'[cur].x2 = SnapNow(p)[1] /\ objs'[cur].y2 = SnapNow(p)[2]]_vars

\* the tool and the layer are switched with the pointer up or down
NextAbandon ==
    \/ Settled /\ Len(layers) < 2 /\ ~mouseDown /\ AddLayer(now)
    \/ Settled /\ \E id \in LayerIds(layers) : SetActive(id)
    \/ Settled /\ \E tool \in {"select", "line", "rectangle"} : SetTool(tool)
    \/ Settled /\ Len(objs) + IdsNeeded <= FewObjs /\ MouseDown(PointerTable[1], {})
    \/ Settled /\ MouseMove(PointerTable[2])
    \/ Settled /\ MouseUp
    \/ ReleaseGuard

SpecAbandon == Init /\ [][NextAbandon]_vars

\* a gesture is between its press and its release
InGesture == mouseDown /\ cur # NoObject /\ startPointRef # NoPoint

\* C39: a switch of the tool or of the active layer between the press and the
\* release of a gesture leaves nothing provisional behind: no preview shape and
\* no start marker on the surface, no shape of the gesture in a list or in
\* the history.
C39_SwitchLeavesNothingProvisional ==
    [][(InGesture /\ (activeTool' # activeTool \/ activeLayerId' # activeLayerId))
       => /\ ~Includes(canvasObjs', cur)
          /\ ~Includes(canvasObjs', TempPoint)
          /\ \A i \in 1..Len(layerObjectsMap') : ~Includes(layerObjectsMap'[i].val, cur)
          /\ \A i \in 1..Len(history') : ~Includes(history'[i].objects, cur)]_vars

\* ------------------------------------- useLayerManager.updateLayerObjects
\* objects.filter(obj => obj !== null && obj !== undefined)
validObjects(objects) == SelectSeq(objects, LAMBDA o : o # NoObject)

\* updateLayerObjects of the hook: skipped while the guard is up; otherwise the
\* guard goes up (a 50 ms timer takes it down) and the updater replaces the
\* list of the first layer with this id, if there is one
updateLayerObjects(w, layerId, objects) ==
    IF w.isUpdatingRef THEN w
    ELSE LET layerIndex == FindLayer(w.layers, layerId)
         IN  [w EXCEPT !.isUpdatingRef = TRUE,
                       !.layers = IF layerIndex = 0 THEN @
                                  ELSE [@ EXCEPT ![layerIndex].objects = validObjects(objects)],
                       !.layersSet = layerIndex # 0]

UpdateLayerObjects(layerId, objects) ==
    /\ Render([updateLayerObjects(World, layerId, objects) EXCEPT
                  !.lastPassed = MapSet(@, layerId, objects)],
              activeLayerId, activeTool)
    /\ UNCHANGED <<now, mouseDown>>

\* the setTimeout(..., 50) callback of updateLayerObjects
ReleaseUpdating ==
    /\ isUpdatingRef
    /\ isUpdatingRef' = FALSE
    /\ UNCHANGED <<regVars, propVars, refVars, closVars, mouseDown, discarded, lastPassed>>

\* the object lists a caller passes: fabric objects by id
PassedLists == {<<>>, <<2>>, <<2, 3>>}

\* the registry with updateLayerObjects calls and its timer in any order
NextHook ==
    \/ \E id \in 0..MaxClock, objects \in PassedLists : UpdateLayerObjects(id, objects)
    \/ ReleaseUpdating
    \/ Len(layers) < 2 /\ AddLayer(now)
    \/ \E id \in LayerIds(layers) : RemoveLayer(id)
    \/ ReleaseGuard

SpecHook == Init /\ [][NextHook]_vars

\* C40: no update of a layer's list is lost: once the timers have fired, each
\* existing layer's list in the registry is the list last passed to
\* updateLayerObjects for it; and a call for a layer that does not exist
\* changes no layer.
C40_NoUpdateLost ==
    [][/\ (isUpdatingRef /\ ~isUpdatingRef')
          => \A i \in 1..Len(layers') :
                 MapHas(lastPassed', layers'[i].id)
                 => layers'[i].objects = MapGet(lastPassed', layers'[i].id)
       /\ \A id \in 0..MaxClock, objects \in PassedLists :
              (id \notin LayerIds(layers) /\ UpdateLayerObjects(id, objects))
              => layers' = layers]_vars

====
